---------------------------- MODULE Spec2Model ----------------------------
(***************************************************************************)
(* Model of the quoting core of the FusionAMM SDK (rust-sdk/core):         *)
(*   - quote/swap.rs       : swap_quote_by_input_token,                    *)
(*                           swap_quote_by_output_token, compute_swap,     *)
(*                           get_next_liquidity, fill_limit_orders,        *)
(*                           compute_swap_step and its helpers             *)
(*   - quote/limit_order.rs: decrease_limit_order_quote                    *)
(*                                                                         *)
(* Number formats.  TLC integers are 32 bit, so the widths of the Rust     *)
(* integer types are scaled down, uniformly, and every formula of the      *)
(* code is kept as written with the scaled width in place of the real one: *)
(*   u64   (token amounts)          -> AmountBits bits                     *)
(*   u128  (liquidity, sqrt price)  -> LiquidityBits bits                  *)
(*   Q64.64 sqrt price              -> Q.FractionBits fixed point          *)
(*   tick range [-443636, 443636]   -> [MIN_TICK_INDEX, MAX_TICK_INDEX]    *)
(* The fee-rate denominators keep their real values.                       *)
(*                                                                         *)
(* A Rust Result<T, CoreError> is a record [ok, v, err]; a panic (an       *)
(* arithmetic overflow in a build with overflow checks) is the error       *)
(* value PANIC, which is not a CoreError.                                  *)
(***************************************************************************)
EXTENDS Integers, Sequences, FiniteSets, TLC

\* ------------------------------------------------------------------------
\* Number formats
\* ------------------------------------------------------------------------

\* Width of u64 in the model.
AmountBits == 10

\* Width of u128 in the model.
LiquidityBits == 14

\* Fractional bits of a sqrt price (64 in the code: Q64.64).
FractionBits == 6

U64_MAX == 2 ^ AmountBits - 1

U128_MAX == 2 ^ LiquidityBits - 1

\* The top of i128, the type of liquidity_net.
I128_MAX == 2 ^ (LiquidityBits - 1) - 1

\* 1 << 64 in the code.
Q64 == 2 ^ FractionBits

\* 1 << 128 in the code: the scale of a squared sqrt price.
Q128 == Q64 * Q64

\* ------------------------------------------------------------------------
\* constants/swap.rs, constants/tick.rs, constants/error.rs
\* ------------------------------------------------------------------------

FEE_RATE_MUL_VALUE == 1000000

\* Denominator of basis points (slippage tolerance, transfer fee).
BPS_DENOMINATOR == 10000

\* Ticks per tick array (88 in the code).
TICK_ARRAY_SIZE == 2

\* sqrt price of every tick index of the model, lowest first:
\* floor(Q64 * b^t) for t = -8 .. 8 with b^8 = 2.
SqrtPriceTable ==
    <<32, 34, 38, 41, 45, 49, 53, 58, 64, 69, 76, 83, 90, 98, 107, 117, 128>>

MAX_TICK_INDEX == (Len(SqrtPriceTable) - 1) \div 2

MIN_TICK_INDEX == -MAX_TICK_INDEX

MIN_SQRT_PRICE == SqrtPriceTable[1]

MAX_SQRT_PRICE == SqrtPriceTable[Len(SqrtPriceTable)]

CoreErrors ==
    { "TICK_ARRAY_NOT_EVENLY_SPACED", "TICK_INDEX_OUT_OF_BOUNDS", "INVALID_TICK_INDEX",
      "ARITHMETIC_OVERFLOW", "AMOUNT_EXCEEDS_MAX_U64",
      "AMOUNT_EXCEEDS_LIMIT_ORDER_INPUT_AMOUNT", "SQRT_PRICE_OUT_OF_BOUNDS",
      "TICK_SEQUENCE_EMPTY", "SQRT_PRICE_LIMIT_OUT_OF_BOUNDS",
      "INVALID_SQRT_PRICE_LIMIT_DIRECTION", "ZERO_TRADABLE_AMOUNT", "INVALID_TIMESTAMP",
      "INVALID_TRANSFER_FEE", "INVALID_SLIPPAGE_TOLERANCE", "TICK_INDEX_NOT_IN_ARRAY",
      "INVALID_TICK_ARRAY_SEQUENCE", "LIMIT_ORDER_AND_POOL_ARE_OUT_OF_SYNC" }

\* The abort of the call by a panic; not a CoreError.
PANIC == "PANIC"

\* ------------------------------------------------------------------------
\* Result<T, CoreError>
\* ------------------------------------------------------------------------

Ok(x) == [ok |-> TRUE, v |-> x, err |-> ""]

Err(e) == [ok |-> FALSE, v |-> 0, err |-> e]

Min(a, b) == IF a <= b THEN a ELSE b

Max(a, b) == IF a >= b THEN a ELSE b

\* ceil(n / d) for n >= 0, d > 0
CeilDiv(n, d) == (n + d - 1) \div d

\* try_into::<u64>() of a wider value
TryIntoU64(x) == IF x > U64_MAX THEN Err("AMOUNT_EXCEEDS_MAX_U64") ELSE Ok(x)

\* ------------------------------------------------------------------------
\* math/token.rs
\* ------------------------------------------------------------------------

\* amount * product / denominator in 128 bits, rounded as asked.  The 128-bit
\* product of a u64 by a value below 2^64 cannot overflow, and no caller passes
\* a wider product.  A division by zero panics.
try_mul_div(amount, product, denominator, round_up) ==
    IF amount = 0 \/ product = 0 THEN Ok(0)
    ELSE IF denominator = 0 THEN Err(PANIC)
    ELSE LET numerator == amount * product
             quotient  == numerator \div denominator
             remainder == numerator % denominator
             result    == IF round_up /\ remainder # 0 THEN quotient + 1 ELSE quotient
         IN  TryIntoU64(result)

try_apply_swap_fee(amount, fee_rate) ==
    try_mul_div(amount, FEE_RATE_MUL_VALUE - fee_rate, FEE_RATE_MUL_VALUE, FALSE)

try_reverse_apply_swap_fee(amount, fee_rate) ==
    try_mul_div(amount, FEE_RATE_MUL_VALUE, FEE_RATE_MUL_VALUE - fee_rate, TRUE)

try_get_min_amount_with_slippage_tolerance(amount, slippage_tolerance_bps) ==
    IF slippage_tolerance_bps > BPS_DENOMINATOR THEN Err("INVALID_SLIPPAGE_TOLERANCE")
    ELSE try_mul_div(amount, BPS_DENOMINATOR - slippage_tolerance_bps, BPS_DENOMINATOR, FALSE)

try_get_max_amount_with_slippage_tolerance(amount, slippage_tolerance_bps) ==
    IF slippage_tolerance_bps > BPS_DENOMINATOR THEN Err("INVALID_SLIPPAGE_TOLERANCE")
    ELSE try_mul_div(amount, BPS_DENOMINATOR + slippage_tolerance_bps, BPS_DENOMINATOR, TRUE)

\* TransferFee::default(), what unwrap_or_default() makes of None
NoTransferFee == [fee_bps |-> 0, max_fee |-> 0]

try_apply_transfer_fee(amount, transfer_fee) ==
    IF transfer_fee.fee_bps > BPS_DENOMINATOR THEN Err("INVALID_TRANSFER_FEE")
    ELSE IF transfer_fee.fee_bps = 0 \/ amount = 0 THEN Ok(amount)
    ELSE LET raw_fee == CeilDiv(amount * transfer_fee.fee_bps, BPS_DENOMINATOR)
             fee_amount == Min(raw_fee, transfer_fee.max_fee)
         IN  Ok(amount - fee_amount)

try_reverse_apply_transfer_fee(amount, transfer_fee) ==
    IF transfer_fee.fee_bps > BPS_DENOMINATOR THEN Err("INVALID_TRANSFER_FEE")
    ELSE IF transfer_fee.fee_bps = 0 THEN Ok(amount)
    ELSE IF amount = 0 THEN Ok(0)
    ELSE IF transfer_fee.fee_bps = BPS_DENOMINATOR
         THEN TryIntoU64(amount + transfer_fee.max_fee)
    ELSE LET raw_pre_fee_amount ==
                 CeilDiv(amount * BPS_DENOMINATOR, BPS_DENOMINATOR - transfer_fee.fee_bps)
             fee_amount == raw_pre_fee_amount - amount
         IN  IF fee_amount >= transfer_fee.max_fee
             THEN TryIntoU64(amount + transfer_fee.max_fee)
             ELSE TryIntoU64(raw_pre_fee_amount)

\* amount of token A between two sqrt prices:
\* liquidity * (upper - lower) << 64 / (lower * upper)
try_get_amount_delta_a(sqrt_price_1, sqrt_price_2, liquidity, round_up) ==
    LET sqrt_price_lower == Min(sqrt_price_1, sqrt_price_2)
        sqrt_price_upper == Max(sqrt_price_1, sqrt_price_2)
        sqrt_price_diff  == sqrt_price_upper - sqrt_price_lower
        numerator   == liquidity * sqrt_price_diff * Q64
        denominator == sqrt_price_lower * sqrt_price_upper
        quotient    == numerator \div denominator
        remainder   == numerator % denominator
        result      == IF round_up /\ remainder # 0 THEN quotient + 1 ELSE quotient
    IN  TryIntoU64(result)

\* amount of token B between two sqrt prices: liquidity * (upper - lower) >> 64
try_get_amount_delta_b(sqrt_price_1, sqrt_price_2, liquidity, round_up) ==
    LET sqrt_price_lower == Min(sqrt_price_1, sqrt_price_2)
        sqrt_price_upper == Max(sqrt_price_1, sqrt_price_2)
        sqrt_price_diff  == sqrt_price_upper - sqrt_price_lower
        product      == liquidity * sqrt_price_diff
        quotient     == product \div Q64
        should_round == round_up /\ product % Q64 > 0
        result       == IF should_round THEN quotient + 1 ELSE quotient
    IN  TryIntoU64(result)

SqrtPriceInBounds(p) == MIN_SQRT_PRICE <= p /\ p <= MAX_SQRT_PRICE

try_get_next_sqrt_price_from_a(current_sqrt_price, current_liquidity, amount, specified_input) ==
    IF amount = 0 THEN Ok(current_sqrt_price)
    ELSE LET p == current_sqrt_price * amount
             numerator == current_liquidity * current_sqrt_price * Q64
             current_liquidity_shifted == current_liquidity * Q64
         IN  IF ~specified_input /\ current_liquidity_shifted <= p
             THEN Err(PANIC)
             ELSE LET denominator == IF specified_input
                                     THEN current_liquidity_shifted + p
                                     ELSE current_liquidity_shifted - p
                      quotient  == numerator \div denominator
                      remainder == numerator % denominator
                      result    == IF remainder # 0 THEN quotient + 1 ELSE quotient
                  IN  IF SqrtPriceInBounds(result) THEN Ok(result)
                      ELSE Err("SQRT_PRICE_OUT_OF_BOUNDS")

try_get_next_sqrt_price_from_b(current_sqrt_price, current_liquidity, amount, specified_input) ==
    IF amount = 0 THEN Ok(current_sqrt_price)
    ELSE IF current_liquidity = 0 THEN Err(PANIC)
    ELSE LET amount_shifted == amount * Q64
             quotient  == amount_shifted \div current_liquidity
             remainder == amount_shifted % current_liquidity
             delta     == IF ~specified_input /\ remainder # 0 THEN quotient + 1 ELSE quotient
         IN  IF ~specified_input /\ delta > current_sqrt_price
             THEN Err(PANIC)
             ELSE LET result == IF specified_input THEN current_sqrt_price + delta
                                ELSE current_sqrt_price - delta
                  IN  IF SqrtPriceInBounds(result) THEN Ok(result)
                      ELSE Err("SQRT_PRICE_OUT_OF_BOUNDS")

\* amount * sqrt_price^2 >> 128
mul_by_sqrt_price_squared(amount, sqrt_price, round_up) ==
    LET product == amount * sqrt_price * sqrt_price
        result  == IF round_up THEN CeilDiv(product, Q128) ELSE product \div Q128
    IN  TryIntoU64(result)

\* (amount << 128) / sqrt_price^2
div_by_sqrt_price_squared(amount, sqrt_price, round_up) ==
    LET numerator   == amount * Q128
        denominator == sqrt_price * sqrt_price
        result == IF round_up THEN CeilDiv(numerator, denominator)
                  ELSE numerator \div denominator
    IN  TryIntoU64(result)

\* ------------------------------------------------------------------------
\* math/limit_order.rs
\* ------------------------------------------------------------------------

get_limit_order_output_amount(input_amount, a_to_b_order, sqrt_price, round_up) ==
    IF a_to_b_order THEN mul_by_sqrt_price_squared(input_amount, sqrt_price, round_up)
    ELSE div_by_sqrt_price_squared(input_amount, sqrt_price, round_up)

\* ------------------------------------------------------------------------
\* math/tick.rs
\* ------------------------------------------------------------------------

tick_index_to_sqrt_price(tick_index) == SqrtPriceTable[tick_index - MIN_TICK_INDEX + 1]

\* the tick whose price interval [price(t), price(t+1)) holds sqrt_price
sqrt_price_to_tick_index(sqrt_price) ==
    CHOOSE t \in MIN_TICK_INDEX..MAX_TICK_INDEX :
        /\ tick_index_to_sqrt_price(t) <= sqrt_price
        /\ \A u \in MIN_TICK_INDEX..MAX_TICK_INDEX :
               tick_index_to_sqrt_price(u) <= sqrt_price => u <= t

get_initializable_tick_index_down(tick_index, tick_spacing) ==
    (tick_index \div tick_spacing) * tick_spacing

get_prev_initializable_tick_index(tick_index, tick_spacing) ==
    LET remainder == tick_index % tick_spacing
    IN  IF remainder = 0 THEN tick_index - tick_spacing ELSE tick_index - remainder

get_next_initializable_tick_index(tick_index, tick_spacing) ==
    tick_index - (tick_index % tick_spacing) + tick_spacing

\* ------------------------------------------------------------------------
\* Unchecked Rust arithmetic (+, -, += on u64 / u128): a result outside the
\* type panics in a build with overflow checks and wraps in one without.
\* ------------------------------------------------------------------------

UncheckedU64(x, overflow_checks) ==
    IF 0 <= x /\ x <= U64_MAX THEN Ok(x)
    ELSE IF overflow_checks THEN Err(PANIC)
    ELSE Ok(x % (U64_MAX + 1))

\* An unchecked u16 operation (the rates of a pool are u16)
UncheckedU16(x, overflow_checks) ==
    IF 0 <= x /\ x < 2 ^ 16 THEN Ok(x)
    ELSE IF overflow_checks THEN Err(PANIC)
    ELSE Ok(x % 2 ^ 16)

UncheckedU128(x, overflow_checks) ==
    IF 0 <= x /\ x <= U128_MAX THEN Ok(x)
    ELSE IF overflow_checks THEN Err(PANIC)
    ELSE Ok(x % (U128_MAX + 1))

\* u64::checked_add / checked_sub followed by .ok_or(ARITHMETIC_OVERFLOW)
CheckedU64(x) ==
    IF 0 <= x /\ x <= U64_MAX THEN Ok(x) ELSE Err("ARITHMETIC_OVERFLOW")

\* `let name = value;`: the value is computed once and the rest of the
\* function, body, goes on with it.
Let(value, body(_)) == CHOOSE r \in { body(x) : x \in {value} } : TRUE

\* `let name = result?;`: an Err is returned at once, the value of an Ok is
\* what the rest of the function goes on with.
Try(result, body(_)) ==
    CHOOSE r \in { IF x.ok THEN body(x.v) ELSE x : x \in {result} } : TRUE

\* ------------------------------------------------------------------------
\* types/tick.rs, math/tick_array.rs: TickFacade, TickArrayFacade,
\* TickArraySequence.  Option<&TickFacade> is a sequence of length 0 or 1.
\* ------------------------------------------------------------------------

TickFacade(initialized, liquidity_net, open_orders_input, part_filled_orders_input, part_filled_orders_remaining_input) ==
    [ initialized |-> initialized,
      liquidity_net |-> liquidity_net,
      open_orders_input |-> open_orders_input,
      part_filled_orders_input |-> part_filled_orders_input,
      part_filled_orders_remaining_input |-> part_filled_orders_remaining_input ]

\* the arrays ordered by start_tick_index (sort_by in TickArraySequence::new)
SortedByStart(tick_arrays) ==
    IF Len(tick_arrays) = 0 THEN tick_arrays
    ELSE CHOOSE s \in [1..Len(tick_arrays) -> {tick_arrays[i] : i \in 1..Len(tick_arrays)}] :
             /\ \A i \in 1..Len(tick_arrays) : \E j \in 1..Len(tick_arrays) : s[j] = tick_arrays[i]
             /\ \A i \in 1..(Len(tick_arrays) - 1) :
                    s[i].start_tick_index <= s[i + 1].start_tick_index

TickArraySequence_new(tick_arrays, tick_spacing) ==
    LET sorted == SortedByStart(tick_arrays)
        required_tick_array_spacing == TICK_ARRAY_SIZE * tick_spacing
    IN  IF Len(sorted) = 0 THEN Err("TICK_SEQUENCE_EMPTY")
        ELSE IF \E i \in 1..(Len(sorted) - 1) :
                    sorted[i + 1].start_tick_index - sorted[i].start_tick_index
                        # required_tick_array_spacing
             THEN Err("TICK_ARRAY_NOT_EVENLY_SPACED")
        ELSE Ok([tick_arrays |-> sorted, tick_spacing |-> tick_spacing])

start_index(seq) == Max(seq.tick_arrays[1].start_tick_index, MIN_TICK_INDEX)

end_index(seq) ==
    Min(seq.tick_arrays[Len(seq.tick_arrays)].start_tick_index
            + TICK_ARRAY_SIZE * seq.tick_spacing - 1,
        MAX_TICK_INDEX)

\* TickArraySequence::tick
tick_at(seq, tick_index) ==
    IF tick_index < start_index(seq) \/ tick_index > end_index(seq)
    THEN Err("TICK_INDEX_OUT_OF_BOUNDS")
    ELSE IF tick_index % seq.tick_spacing # 0 THEN Err("INVALID_TICK_INDEX")
    ELSE LET first_index == seq.tick_arrays[1].start_tick_index
             tick_array_index ==
                 (tick_index - first_index) \div (TICK_ARRAY_SIZE * seq.tick_spacing)
             tick_array == seq.tick_arrays[tick_array_index + 1]
             index_in_array ==
                 (tick_index - tick_array.start_tick_index) \div seq.tick_spacing
         IN  Ok(tick_array.ticks[index_in_array + 1])

RECURSIVE next_initialized_scan(_, _)
next_initialized_scan(seq, from_index) ==
    LET next_index == get_next_initializable_tick_index(from_index, seq.tick_spacing)
    IN  IF next_index > end_index(seq)
        THEN Ok([tick |-> <<>>, index |-> end_index(seq)])
        ELSE LET t == tick_at(seq, next_index)
             IN  IF ~t.ok THEN Err(t.err)
                 ELSE IF t.v.initialized THEN Ok([tick |-> <<t.v>>, index |-> next_index])
                 ELSE next_initialized_scan(seq, next_index)

\* The first initialized tick above tick_index; past the last tick of the
\* sequence no tick and the last index; an index at or beyond the end of the
\* sequence is the tick-sequence error.
next_initialized_tick(seq, tick_index) ==
    IF tick_index >= end_index(seq) THEN Err("INVALID_TICK_ARRAY_SEQUENCE")
    ELSE next_initialized_scan(seq, tick_index)

RECURSIVE prev_initialized_scan(_, _)
prev_initialized_scan(seq, prev_index) ==
    IF prev_index < start_index(seq)
    THEN Ok([tick |-> <<>>, index |-> start_index(seq)])
    ELSE LET t == tick_at(seq, prev_index)
         IN  IF ~t.ok THEN Err(t.err)
             ELSE IF t.v.initialized THEN Ok([tick |-> <<t.v>>, index |-> prev_index])
             ELSE prev_initialized_scan(
                      seq, get_prev_initializable_tick_index(prev_index, seq.tick_spacing))

\* The first initialized tick at or below tick_index; mirrored.
prev_initialized_tick(seq, tick_index) ==
    IF tick_index < start_index(seq) THEN Err("INVALID_TICK_ARRAY_SEQUENCE")
    ELSE prev_initialized_scan(
             seq, get_initializable_tick_index_down(tick_index, seq.tick_spacing))

\* ------------------------------------------------------------------------
\* quote/swap.rs: the helpers of compute_swap
\* ------------------------------------------------------------------------

try_get_amount_fixed_delta(current_sqrt_price, target_sqrt_price, current_liquidity, a_to_b, specified_input) ==
    IF a_to_b = specified_input
    THEN try_get_amount_delta_a(current_sqrt_price, target_sqrt_price, current_liquidity,
                                specified_input)
    ELSE try_get_amount_delta_b(current_sqrt_price, target_sqrt_price, current_liquidity,
                                specified_input)

\* try_get_amount_unfixed_delta as it would be if it rounded the way the
\* fixed amount is rounded.
try_get_amount_unfixed_delta_rounded_as_fixed(current_sqrt_price, target_sqrt_price, current_liquidity, a_to_b, specified_input) ==
    IF specified_input = a_to_b
    THEN try_get_amount_delta_b(current_sqrt_price, target_sqrt_price, current_liquidity,
                                specified_input)
    ELSE try_get_amount_delta_a(current_sqrt_price, target_sqrt_price, current_liquidity,
                                specified_input)

try_get_amount_unfixed_delta(current_sqrt_price, target_sqrt_price, current_liquidity, a_to_b, specified_input) ==
    IF specified_input = a_to_b
    THEN try_get_amount_delta_b(current_sqrt_price, target_sqrt_price, current_liquidity,
                                ~specified_input)
    ELSE try_get_amount_delta_a(current_sqrt_price, target_sqrt_price, current_liquidity,
                                ~specified_input)

try_get_next_sqrt_price(current_sqrt_price, current_liquidity, amount_calculated, a_to_b, specified_input) ==
    IF specified_input = a_to_b
    THEN try_get_next_sqrt_price_from_a(current_sqrt_price, current_liquidity,
                                        amount_calculated, specified_input)
    ELSE try_get_next_sqrt_price_from_b(current_sqrt_price, current_liquidity,
                                        amount_calculated, specified_input)

\* SwapStepQuote
SwapStepQuote(amount_in, amount_out, next_sqrt_price, fee_amount) ==
    [ amount_in |-> amount_in, amount_out |-> amount_out,
      next_sqrt_price |-> next_sqrt_price, fee_amount |-> fee_amount ]

\* The fee of a step (swap.rs 412-417); its subtractions are unchecked.
step_fee_amount(amount_remaining, amount_in, fee_rate, specified_input, is_max_swap, overflow_checks) ==
    IF specified_input /\ ~is_max_swap
    THEN UncheckedU64(amount_remaining - amount_in, overflow_checks)
    ELSE Try(try_reverse_apply_swap_fee(amount_in, fee_rate), LAMBDA pre_fee_amount :
         UncheckedU64(pre_fee_amount - amount_in, overflow_checks))

\* swap.rs 384-425: compute_swap_step once initial_amount_fixed_delta (a
\* Result) and amount_calculated are known.
compute_swap_step_from(initial_amount_fixed_delta, amount_calculated, amount_remaining, fee_rate, current_liquidity, current_sqrt_price, target_sqrt_price, a_to_b, specified_input, overflow_checks) ==
    Let(initial_amount_fixed_delta = Err("AMOUNT_EXCEEDS_MAX_U64"),
        LAMBDA is_initial_amount_fixed_overflow :
    IF ~is_initial_amount_fixed_overflow /\ ~initial_amount_fixed_delta.ok
    THEN initial_amount_fixed_delta
    ELSE
    Try(IF /\ ~is_initial_amount_fixed_overflow
           /\ initial_amount_fixed_delta.v <= amount_calculated
        THEN Ok(target_sqrt_price)
        ELSE try_get_next_sqrt_price(current_sqrt_price, current_liquidity,
                                     amount_calculated, a_to_b, specified_input),
        LAMBDA next_sqrt_price :
    Let(next_sqrt_price = target_sqrt_price, LAMBDA is_max_swap :
    Try(try_get_amount_unfixed_delta(current_sqrt_price, next_sqrt_price,
                                     current_liquidity, a_to_b, specified_input),
        LAMBDA amount_unfixed_delta :
    \* If the swap is not at the max, the amount of the fixed token is readjusted
    Try(IF ~is_max_swap \/ is_initial_amount_fixed_overflow
        THEN try_get_amount_fixed_delta(current_sqrt_price, next_sqrt_price,
                                        current_liquidity, a_to_b, specified_input)
        ELSE initial_amount_fixed_delta,
        LAMBDA amount_fixed_delta :
    Let(IF specified_input THEN amount_fixed_delta ELSE amount_unfixed_delta,
        LAMBDA amount_in :
    Let(IF specified_input THEN amount_unfixed_delta ELSE amount_fixed_delta,
        LAMBDA uncapped_amount_out :
    \* Cap output amount if using output
    Let(IF ~specified_input /\ uncapped_amount_out > amount_remaining
        THEN amount_remaining ELSE uncapped_amount_out,
        LAMBDA amount_out :
    Try(step_fee_amount(amount_remaining, amount_in, fee_rate, specified_input,
                        is_max_swap, overflow_checks),
        LAMBDA step_fee :
    Ok(SwapStepQuote(amount_in, amount_out, next_sqrt_price, step_fee)))))))))))

\* swap.rs 365-425
compute_swap_step(amount_remaining, fee_rate, current_liquidity, current_sqrt_price, target_sqrt_price, a_to_b, specified_input, overflow_checks) ==
    Let(try_get_amount_fixed_delta(current_sqrt_price, target_sqrt_price,
                                   current_liquidity, a_to_b, specified_input),
        LAMBDA initial_amount_fixed_delta :
    Try(IF specified_input THEN try_apply_swap_fee(amount_remaining, fee_rate)
        ELSE Ok(amount_remaining),
        LAMBDA amount_calculated_for_step :
    compute_swap_step_from(initial_amount_fixed_delta, amount_calculated_for_step,
                           amount_remaining, fee_rate, current_liquidity,
                           current_sqrt_price, target_sqrt_price, a_to_b,
                           specified_input, overflow_checks)))

\* LimitSwapComputation
LimitSwapComputation(amount_in, fee_amount, amount_out) ==
    [amount_in |-> amount_in, fee_amount |-> fee_amount, amount_out |-> amount_out]

\* swap.rs 333-345: not enough input remaining amount to fill all limit
\* orders of the tick.
fill_limit_orders_partly(part_filled_orders_remaining_input, total_available_amount_in, amount_remaining, fee_rate, overflow_checks) ==
    Try(try_mul_div(amount_remaining, fee_rate, FEE_RATE_MUL_VALUE, TRUE),
        LAMBDA partial_fee :
    Try(UncheckedU64(amount_remaining - partial_fee, overflow_checks),
        LAMBDA amount_in :
    Try(try_mul_div(part_filled_orders_remaining_input, amount_in,
                    total_available_amount_in, FALSE),
        LAMBDA amount_out :
    Ok(LimitSwapComputation(amount_in, partial_fee, amount_out)))))

\* fill_limit_orders with amount_specified_is_input (swap.rs 324-345)
fill_limit_orders_exact_in(part_filled_orders_remaining_input, sqrt_price, a_to_b, amount_remaining, fee_rate, overflow_checks) ==
    Try(get_limit_order_output_amount(part_filled_orders_remaining_input, ~a_to_b,
                                      sqrt_price, TRUE),
        LAMBDA total_amount_in :
    Try(try_mul_div(total_amount_in, fee_rate, FEE_RATE_MUL_VALUE - fee_rate, TRUE),
        LAMBDA total_fee_amount :
    Try(UncheckedU64(total_amount_in + total_fee_amount, overflow_checks),
        LAMBDA needed :
    IF amount_remaining < needed
    THEN fill_limit_orders_partly(part_filled_orders_remaining_input, total_amount_in,
                                  amount_remaining, fee_rate, overflow_checks)
    ELSE Ok(LimitSwapComputation(total_amount_in, total_fee_amount,
                                 part_filled_orders_remaining_input)))))

\* fill_limit_orders with the output specified (swap.rs 346-352)
fill_limit_orders_exact_out(part_filled_orders_remaining_input, sqrt_price, a_to_b, amount_remaining, fee_rate) ==
    Let(Min(part_filled_orders_remaining_input, amount_remaining), LAMBDA amount_out :
    Try(get_limit_order_output_amount(amount_out, ~a_to_b, sqrt_price, TRUE),
        LAMBDA amount_in :
    Try(try_mul_div(amount_in, fee_rate, FEE_RATE_MUL_VALUE - fee_rate, TRUE),
        LAMBDA fill_fee :
    Ok(LimitSwapComputation(amount_in, fill_fee, amount_out)))))

\* swap.rs 311-356
fill_limit_orders(tick, sqrt_price, a_to_b, amount_specified_is_input, amount_remaining, fee_rate, overflow_checks) ==
    IF tick = <<>> THEN Ok(LimitSwapComputation(0, 0, 0))
    ELSE Try(UncheckedU64(tick[1].open_orders_input
                              + tick[1].part_filled_orders_remaining_input,
                          overflow_checks),
             LAMBDA part_filled_orders_remaining_input :
         IF amount_specified_is_input
         THEN fill_limit_orders_exact_in(part_filled_orders_remaining_input, sqrt_price,
                                         a_to_b, amount_remaining, fee_rate,
                                         overflow_checks)
         ELSE fill_limit_orders_exact_out(part_filled_orders_remaining_input, sqrt_price,
                                          a_to_b, amount_remaining, fee_rate))

\* |liquidity_net|
unsigned_abs(x) == IF x < 0 THEN -x ELSE x

\* liquidity_delta as it would be if the direction were ignored.
liquidity_delta_one_way(next_tick, a_to_b) ==
    IF next_tick = <<>> THEN 0 ELSE next_tick[1].liquidity_net

\* signed change of the liquidity when next_tick is crossed (swap.rs 287-299)
liquidity_delta(next_tick, a_to_b) ==
    LET liquidity_net == IF next_tick = <<>> THEN 0 ELSE next_tick[1].liquidity_net
        liquidity_net_unsigned == unsigned_abs(liquidity_net)
    IN  IF a_to_b
        THEN IF liquidity_net < 0 THEN liquidity_net_unsigned ELSE -liquidity_net_unsigned
        ELSE IF liquidity_net < 0 THEN -liquidity_net_unsigned ELSE liquidity_net_unsigned

\* get_next_liquidity: plain + and - on u128
get_next_liquidity(current_liquidity, next_tick, a_to_b, overflow_checks) ==
    UncheckedU128(current_liquidity + liquidity_delta(next_tick, a_to_b), overflow_checks)

\* ------------------------------------------------------------------------
\* quote/swap.rs: compute_swap, one loop iteration
\* ------------------------------------------------------------------------

\* settle_step as it would be if the fee of an exact-in step were not taken
\* from amount_remaining.
settle_step_without_fee(amount_remaining, amount_calculated, step_quote, specified_input) ==
    IF specified_input
    THEN LET r1 == CheckedU64(amount_remaining - step_quote.amount_in)
             c1 == CheckedU64(amount_calculated + step_quote.amount_out)
         IN  IF ~r1.ok THEN r1 ELSE IF ~c1.ok THEN c1
             ELSE Ok([amount_remaining |-> r1.v, amount_calculated |-> c1.v])
    ELSE LET r1 == CheckedU64(amount_remaining - step_quote.amount_out)
             c1 == CheckedU64(amount_calculated + step_quote.amount_in)
             c2 == CheckedU64(c1.v + step_quote.fee_amount)
         IN  IF ~r1.ok THEN r1 ELSE IF ~c1.ok THEN c1 ELSE IF ~c2.ok THEN c2
             ELSE Ok([amount_remaining |-> r1.v, amount_calculated |-> c2.v])

\* settle_step as it would be with wrapping_sub / wrapping_add in place of
\* checked_sub / checked_add.
settle_step_wrapping(amount_remaining, amount_calculated, step_quote, specified_input) ==
    LET wrap(x) == x % (U64_MAX + 1)
    IN  IF specified_input
        THEN Ok([amount_remaining |->
                     wrap(amount_remaining - step_quote.amount_in - step_quote.fee_amount),
                 amount_calculated |-> wrap(amount_calculated + step_quote.amount_out)])
        ELSE Ok([amount_remaining |-> wrap(amount_remaining - step_quote.amount_out),
                 amount_calculated |->
                     wrap(amount_calculated + step_quote.amount_in + step_quote.fee_amount)])

\* swap.rs 222-236: the concentrated step is taken from amount_remaining and
\* added to amount_calculated, every operation checked.
settle_step(amount_remaining, amount_calculated, step_quote, specified_input) ==
    IF specified_input
    THEN LET r1 == CheckedU64(amount_remaining - step_quote.amount_in)
             r2 == CheckedU64(r1.v - step_quote.fee_amount)
             c1 == CheckedU64(amount_calculated + step_quote.amount_out)
         IN  IF ~r1.ok THEN r1 ELSE IF ~r2.ok THEN r2 ELSE IF ~c1.ok THEN c1
             ELSE Ok([amount_remaining |-> r2.v, amount_calculated |-> c1.v])
    ELSE LET r1 == CheckedU64(amount_remaining - step_quote.amount_out)
             c1 == CheckedU64(amount_calculated + step_quote.amount_in)
             c2 == CheckedU64(c1.v + step_quote.fee_amount)
         IN  IF ~r1.ok THEN r1 ELSE IF ~c1.ok THEN c1 ELSE IF ~c2.ok THEN c2
             ELSE Ok([amount_remaining |-> r1.v, amount_calculated |-> c2.v])

\* swap.rs 244-262: the same for the limit-order fill.
settle_limit_orders(amount_remaining, amount_calculated, limit_swap_computation, specified_input) ==
    IF specified_input
    THEN LET r1 == CheckedU64(amount_remaining - limit_swap_computation.amount_in)
             r2 == CheckedU64(r1.v - limit_swap_computation.fee_amount)
             c1 == CheckedU64(amount_calculated + limit_swap_computation.amount_out)
         IN  IF ~r1.ok THEN r1 ELSE IF ~r2.ok THEN r2 ELSE IF ~c1.ok THEN c1
             ELSE Ok([amount_remaining |-> r2.v, amount_calculated |-> c1.v])
    ELSE LET r1 == CheckedU64(amount_remaining - limit_swap_computation.amount_out)
             c1 == CheckedU64(amount_calculated + limit_swap_computation.amount_in)
             c2 == CheckedU64(c1.v + limit_swap_computation.fee_amount)
         IN  IF ~r1.ok THEN r1 ELSE IF ~c1.ok THEN c1 ELSE IF ~c2.ok THEN c2
             ELSE Ok([amount_remaining |-> r1.v, amount_calculated |-> c2.v])

\* The target as it would be if the step always aimed at the next tick,
\* whatever the limit.
target_sqrt_price_of_next_tick(next_tick_sqrt_price, sqrt_price_limit, a_to_b) ==
    next_tick_sqrt_price

\* swap.rs 204-208
target_sqrt_price_of(next_tick_sqrt_price, sqrt_price_limit, a_to_b) ==
    IF a_to_b THEN Max(next_tick_sqrt_price, sqrt_price_limit)
    ELSE Min(next_tick_sqrt_price, sqrt_price_limit)

\* What the specified side of the swap gave up in a step or a fill: the
\* amounts the claims call "consumed".
consumed_by(q, specified_input) ==
    IF specified_input THEN q.amount_in + q.fee_amount ELSE q.amount_out

\* What a step or a fill adds to the other side of the swap.
produced_by(q, specified_input) ==
    IF specified_input THEN q.amount_out ELSE q.amount_in + q.fee_amount

\* cross_tick as it would be if the tick index were left where it was.
cross_tick_keeping_tick(loc, next, step_quote, fee_after_step, settled, fee_rate, a_to_b, specified_input, overflow_checks) ==
    Try(fill_limit_orders(next.tick, tick_index_to_sqrt_price(next.index), a_to_b,
                          specified_input, settled.amount_remaining, fee_rate,
                          overflow_checks),
        LAMBDA limit_swap_computation :
    Try(UncheckedU64(fee_after_step + limit_swap_computation.fee_amount, overflow_checks),
        LAMBDA fee_after_fill :
    Try(settle_limit_orders(settled.amount_remaining, settled.amount_calculated,
                            limit_swap_computation, specified_input),
        LAMBDA filled :
    Try(get_next_liquidity(loc.current_liquidity, next.tick, a_to_b, overflow_checks),
        LAMBDA next_liquidity :
    Ok([ loc |-> [ amount_remaining   |-> filled.amount_remaining,
                   amount_calculated  |-> filled.amount_calculated,
                   current_sqrt_price |-> step_quote.next_sqrt_price,
                   current_tick_index |-> loc.current_tick_index,
                   current_liquidity  |-> next_liquidity,
                   fee_amount         |-> fee_after_fill ],
         crossed |-> TRUE,
         limit_swap_computation |-> limit_swap_computation ])))))

\* swap.rs 238-265: the step ended on the price of the next tick, so the
\* limit orders of the tick are filled and the tick is crossed.
cross_tick(loc, next, step_quote, fee_after_step, settled, fee_rate, a_to_b, specified_input, overflow_checks) ==
    Try(fill_limit_orders(next.tick, tick_index_to_sqrt_price(next.index), a_to_b,
                          specified_input, settled.amount_remaining, fee_rate,
                          overflow_checks),
        LAMBDA limit_swap_computation :
    Try(UncheckedU64(fee_after_step + limit_swap_computation.fee_amount, overflow_checks),
        LAMBDA fee_after_fill :
    Try(settle_limit_orders(settled.amount_remaining, settled.amount_calculated,
                            limit_swap_computation, specified_input),
        LAMBDA filled :
    Try(get_next_liquidity(loc.current_liquidity, next.tick, a_to_b, overflow_checks),
        LAMBDA next_liquidity :
    Ok([ loc |-> [ amount_remaining   |-> filled.amount_remaining,
                   amount_calculated  |-> filled.amount_calculated,
                   current_sqrt_price |-> step_quote.next_sqrt_price,
                   current_tick_index |-> IF a_to_b THEN next.index - 1 ELSE next.index,
                   current_liquidity  |-> next_liquidity,
                   fee_amount         |-> fee_after_fill ],
         crossed |-> TRUE,
         limit_swap_computation |-> limit_swap_computation ])))))

\* swap.rs 266-270: the step ended inside the range of the current tick.
stay_between_ticks(loc, step_quote, fee_after_step, settled) ==
    [ loc |-> [ amount_remaining   |-> settled.amount_remaining,
                amount_calculated  |-> settled.amount_calculated,
                current_sqrt_price |-> step_quote.next_sqrt_price,
                current_tick_index |->
                    IF step_quote.next_sqrt_price # loc.current_sqrt_price
                    THEN sqrt_price_to_tick_index(step_quote.next_sqrt_price)
                    ELSE loc.current_tick_index,
                current_liquidity  |-> loc.current_liquidity,
                fee_amount         |-> fee_after_step ],
      crossed |-> FALSE,
      limit_swap_computation |-> LimitSwapComputation(0, 0, 0) ]

\* swap_iteration as it would be if the tick were crossed whenever the step
\* ended at its target, the price limit included.
swap_iteration_crossing_at_target(loc, seq, fee_rate, sqrt_price_limit, a_to_b, specified_input, overflow_checks) ==
    Try(IF a_to_b THEN prev_initialized_tick(seq, loc.current_tick_index)
        ELSE next_initialized_tick(seq, loc.current_tick_index),
        LAMBDA next :
    Let(tick_index_to_sqrt_price(next.index), LAMBDA next_tick_sqrt_price :
    Let(target_sqrt_price_of(next_tick_sqrt_price, sqrt_price_limit, a_to_b),
        LAMBDA target_sqrt_price :
    Try(compute_swap_step(loc.amount_remaining, fee_rate, loc.current_liquidity,
                          loc.current_sqrt_price, target_sqrt_price, a_to_b,
                          specified_input, overflow_checks),
        LAMBDA step_quote :
    Try(UncheckedU64(loc.fee_amount + step_quote.fee_amount, overflow_checks),
        LAMBDA fee_after_step :
    Try(settle_step(loc.amount_remaining, loc.amount_calculated, step_quote,
                    specified_input),
        LAMBDA settled :
    Try(IF step_quote.next_sqrt_price = target_sqrt_price
        THEN cross_tick(loc, next, step_quote, fee_after_step, settled, fee_rate,
                        a_to_b, specified_input, overflow_checks)
        ELSE Ok(stay_between_ticks(loc, step_quote, fee_after_step, settled)),
        LAMBDA moved :
    Ok([ loc  |-> moved.loc,
         info |-> [ next_tick |-> next.tick,
                    next_tick_index |-> next.index,
                    next_tick_sqrt_price |-> next_tick_sqrt_price,
                    target_sqrt_price |-> target_sqrt_price,
                    step_quote |-> step_quote,
                    before |-> loc ],
         after_step |-> settled,
         crossed |-> moved.crossed,
         limit_swap_computation |-> moved.limit_swap_computation ]))))))))

\* swap.rs 198-270: the body of the while loop on the locals loc.  Ok holds
\* the locals after the iteration (loc) and what the iteration computed.
swap_iteration(loc, seq, fee_rate, sqrt_price_limit, a_to_b, specified_input, overflow_checks) ==
    Try(IF a_to_b THEN prev_initialized_tick(seq, loc.current_tick_index)
        ELSE next_initialized_tick(seq, loc.current_tick_index),
        LAMBDA next :
    Let(tick_index_to_sqrt_price(next.index), LAMBDA next_tick_sqrt_price :
    Let(target_sqrt_price_of(next_tick_sqrt_price, sqrt_price_limit, a_to_b),
        LAMBDA target_sqrt_price :
    Try(compute_swap_step(loc.amount_remaining, fee_rate, loc.current_liquidity,
                          loc.current_sqrt_price, target_sqrt_price, a_to_b,
                          specified_input, overflow_checks),
        LAMBDA step_quote :
    Try(UncheckedU64(loc.fee_amount + step_quote.fee_amount, overflow_checks),
        LAMBDA fee_after_step :
    Try(settle_step(loc.amount_remaining, loc.amount_calculated, step_quote,
                    specified_input),
        LAMBDA settled :
    Try(IF step_quote.next_sqrt_price = next_tick_sqrt_price
        THEN cross_tick(loc, next, step_quote, fee_after_step, settled, fee_rate,
                        a_to_b, specified_input, overflow_checks)
        ELSE Ok(stay_between_ticks(loc, step_quote, fee_after_step, settled)),
        LAMBDA moved :
    Ok([ loc  |-> moved.loc,
         info |-> [ next_tick |-> next.tick,
                    next_tick_index |-> next.index,
                    next_tick_sqrt_price |-> next_tick_sqrt_price,
                    target_sqrt_price |-> target_sqrt_price,
                    step_quote |-> step_quote,
                    before |-> loc ],
         after_step |-> settled,
         crossed |-> moved.crossed,
         limit_swap_computation |-> moved.limit_swap_computation ]))))))))

\* ------------------------------------------------------------------------
\* quote/swap.rs: entry and exit of compute_swap and of the two quotes
\* ------------------------------------------------------------------------

\* effective_sqrt_price_limit as it would be with the two bounds exchanged.
effective_sqrt_price_limit_exchanged(sqrt_price_limit, a_to_b) ==
    IF sqrt_price_limit = 0
    THEN IF a_to_b THEN MAX_SQRT_PRICE ELSE MIN_SQRT_PRICE
    ELSE sqrt_price_limit

\* swap.rs 168-176: a limit of 0 stands for the bound of the direction.
effective_sqrt_price_limit(sqrt_price_limit, a_to_b) ==
    IF sqrt_price_limit = 0
    THEN IF a_to_b THEN MIN_SQRT_PRICE ELSE MAX_SQRT_PRICE
    ELSE sqrt_price_limit

\* compute_swap_begin as it would be without the check of token_amount.
compute_swap_begin_any_amount(token_amount, sqrt_price_limit, fusion_pool, a_to_b) ==
    LET limit == IF sqrt_price_limit = 0
                 THEN IF a_to_b THEN MIN_SQRT_PRICE ELSE MAX_SQRT_PRICE
                 ELSE sqrt_price_limit
    IN  IF ~(MIN_SQRT_PRICE <= limit /\ limit <= MAX_SQRT_PRICE)
        THEN Err("SQRT_PRICE_LIMIT_OUT_OF_BOUNDS")
        ELSE IF \/ a_to_b /\ limit >= fusion_pool.sqrt_price
                \/ ~a_to_b /\ limit <= fusion_pool.sqrt_price
        THEN Err("INVALID_SQRT_PRICE_LIMIT_DIRECTION")
        ELSE Ok(limit)

\* compute_swap_begin as it would be if a limit equal to the current price
\* were let through (> and < in place of >= and <=).
compute_swap_begin_limit_at_price(token_amount, sqrt_price_limit, fusion_pool, a_to_b) ==
    LET limit == IF sqrt_price_limit = 0
                 THEN IF a_to_b THEN MIN_SQRT_PRICE ELSE MAX_SQRT_PRICE
                 ELSE sqrt_price_limit
    IN  IF ~(MIN_SQRT_PRICE <= limit /\ limit <= MAX_SQRT_PRICE)
        THEN Err("SQRT_PRICE_LIMIT_OUT_OF_BOUNDS")
        ELSE IF \/ a_to_b /\ limit > fusion_pool.sqrt_price
                \/ ~a_to_b /\ limit < fusion_pool.sqrt_price
        THEN Err("INVALID_SQRT_PRICE_LIMIT_DIRECTION")
        ELSE IF token_amount = 0 THEN Err("ZERO_TRADABLE_AMOUNT")
        ELSE Ok(limit)

\* swap.rs 168-188: the checks of compute_swap, in the order of the code;
\* Ok holds the effective limit.
compute_swap_begin(token_amount, sqrt_price_limit, fusion_pool, a_to_b) ==
    LET limit == effective_sqrt_price_limit(sqrt_price_limit, a_to_b)
    IN  IF ~(MIN_SQRT_PRICE <= limit /\ limit <= MAX_SQRT_PRICE)
        THEN Err("SQRT_PRICE_LIMIT_OUT_OF_BOUNDS")
        ELSE IF \/ a_to_b /\ limit >= fusion_pool.sqrt_price
                \/ ~a_to_b /\ limit <= fusion_pool.sqrt_price
        THEN Err("INVALID_SQRT_PRICE_LIMIT_DIRECTION")
        ELSE IF token_amount = 0 THEN Err("ZERO_TRADABLE_AMOUNT")
        ELSE Ok(limit)

\* swap.rs 273-283
SwapResult(token_amount, amount_remaining, amount_calculated, fee_amount, current_sqrt_price, a_to_b, specified_input) ==
    LET swapped_amount == token_amount - amount_remaining
    IN  [ token_a |-> IF a_to_b = specified_input THEN swapped_amount ELSE amount_calculated,
          token_b |-> IF a_to_b = specified_input THEN amount_calculated ELSE swapped_amount,
          fee_amount |-> fee_amount,
          next_sqrt_price |-> current_sqrt_price ]

\* quote_min_out as it would be if the quote took the upper bound.
quote_min_out_upper(token_est_out, slippage_tolerance_bps) ==
    try_get_max_amount_with_slippage_tolerance(token_est_out, slippage_tolerance_bps)

\* swap.rs 67: the bound of the exact-in quote
quote_min_out(token_est_out, slippage_tolerance_bps) ==
    try_get_min_amount_with_slippage_tolerance(token_est_out, slippage_tolerance_bps)

\* swap.rs 122: the bound of the exact-out quote
quote_max_in(token_est_in, slippage_tolerance_bps) ==
    try_get_max_amount_with_slippage_tolerance(token_est_in, slippage_tolerance_bps)

\* swap.rs 57-75: the quote made of the result of compute_swap
exact_in_swap_quote(swap_result, specified_token_a, slippage_tolerance_bps, transfer_fee_a, transfer_fee_b) ==
    Let(IF specified_token_a THEN transfer_fee_a ELSE transfer_fee_b,
        LAMBDA transfer_fee_in :
    Let(IF specified_token_a THEN transfer_fee_b ELSE transfer_fee_a,
        LAMBDA transfer_fee_out :
    Let(IF specified_token_a THEN swap_result.token_a ELSE swap_result.token_b,
        LAMBDA token_in_after_fees :
    Let(IF specified_token_a THEN swap_result.token_b ELSE swap_result.token_a,
        LAMBDA token_est_out_before_fee :
    Try(try_reverse_apply_transfer_fee(token_in_after_fees, transfer_fee_in),
        LAMBDA token_in :
    Try(try_apply_transfer_fee(token_est_out_before_fee, transfer_fee_out),
        LAMBDA token_est_out :
    Try(quote_min_out(token_est_out, slippage_tolerance_bps),
        LAMBDA token_min_out :
    Ok([ token_in |-> token_in,
         token_est_out |-> token_est_out,
         token_min_out |-> token_min_out,
         trade_fee |-> swap_result.fee_amount,
         next_sqrt_price |-> swap_result.next_sqrt_price ]))))))))

\* swap.rs 112-130
exact_out_swap_quote(swap_result, specified_token_a, slippage_tolerance_bps, transfer_fee_a, transfer_fee_b) ==
    Let(IF specified_token_a THEN transfer_fee_b ELSE transfer_fee_a,
        LAMBDA transfer_fee_in :
    Let(IF specified_token_a THEN transfer_fee_a ELSE transfer_fee_b,
        LAMBDA transfer_fee_out :
    Let(IF specified_token_a THEN swap_result.token_a ELSE swap_result.token_b,
        LAMBDA token_out_before_fee :
    Let(IF specified_token_a THEN swap_result.token_b ELSE swap_result.token_a,
        LAMBDA token_est_in_after_fee :
    Try(try_apply_transfer_fee(token_out_before_fee, transfer_fee_out),
        LAMBDA token_out :
    Try(try_reverse_apply_transfer_fee(token_est_in_after_fee, transfer_fee_in),
        LAMBDA token_est_in :
    Try(quote_max_in(token_est_in, slippage_tolerance_bps),
        LAMBDA token_max_in :
    Ok([ token_out |-> token_out,
         token_est_in |-> token_est_in,
         token_max_in |-> token_max_in,
         trade_fee |-> swap_result.fee_amount,
         next_sqrt_price |-> swap_result.next_sqrt_price ]))))))))

\* ------------------------------------------------------------------------
\* quote/limit_order.rs: decrease_limit_order_quote
\* ------------------------------------------------------------------------

\* LimitOrderFacade (types/limit_order.rs 13-18)
LimitOrderFacade(tick_index, amount, a_to_b, age) ==
    [ tick_index |-> tick_index, amount |-> amount, a_to_b |-> a_to_b, age |-> age ]

\* LimitOrderDecreaseQuote with the fields decrease_limit_order_quote sets
\* (limit_order.rs 148-153)
LimitOrderDecreaseQuote(amount_out_a, amount_out_b, reward_a, reward_b) ==
    [ amount_out_a |-> amount_out_a, amount_out_b |-> amount_out_b,
      reward_a |-> reward_a, reward_b |-> reward_b ]

\* decrease_partially_filled as it would be if the remaining input were
\* rounded up.
decrease_partially_filled_rounded_up(limit_order, tick, amount, overflow_checks) ==
    IF tick.part_filled_orders_input = 0
    THEN Err("LIMIT_ORDER_AND_POOL_ARE_OUT_OF_SYNC")
    ELSE
    Let(tick_index_to_sqrt_price(limit_order.tick_index), LAMBDA sqrt_price :
    Try(try_mul_div(amount, tick.part_filled_orders_remaining_input,
                    tick.part_filled_orders_input, TRUE),
        LAMBDA remaining_input :
    Try(UncheckedU64(amount - remaining_input, overflow_checks), LAMBDA filled_input :
    Try(get_limit_order_output_amount(filled_input, limit_order.a_to_b, sqrt_price, FALSE),
        LAMBDA amount_out :
    Ok([ amount_in |-> remaining_input, amount_out |-> amount_out ])))))

\* limit_order.rs 96-104: the order is in the part of the tick that is being
\* filled; amount - remaining_input is a plain u64 subtraction.
decrease_partially_filled(limit_order, tick, amount, overflow_checks) ==
    IF tick.part_filled_orders_input = 0
    THEN Err("LIMIT_ORDER_AND_POOL_ARE_OUT_OF_SYNC")
    ELSE
    Let(tick_index_to_sqrt_price(limit_order.tick_index), LAMBDA sqrt_price :
    Try(try_mul_div(amount, tick.part_filled_orders_remaining_input,
                    tick.part_filled_orders_input, FALSE),
        LAMBDA remaining_input :
    Try(UncheckedU64(amount - remaining_input, overflow_checks), LAMBDA filled_input :
    Try(get_limit_order_output_amount(filled_input, limit_order.a_to_b, sqrt_price, FALSE),
        LAMBDA amount_out :
    Ok([ amount_in |-> remaining_input, amount_out |-> amount_out ])))))

\* decrease_fulfilled as it would be if the output were rounded up.
decrease_fulfilled_rounded_up(limit_order, amount) ==
    Let(tick_index_to_sqrt_price(limit_order.tick_index), LAMBDA sqrt_price :
    Try(get_limit_order_output_amount(amount, limit_order.a_to_b, sqrt_price, TRUE),
        LAMBDA amount_out :
    Ok([ amount_in |-> 0, amount_out |-> amount_out ])))

\* limit_order.rs 106-109: the order is fulfilled.
decrease_fulfilled(limit_order, amount) ==
    Let(tick_index_to_sqrt_price(limit_order.tick_index), LAMBDA sqrt_price :
    Try(get_limit_order_output_amount(amount, limit_order.a_to_b, sqrt_price, FALSE),
        LAMBDA amount_out :
    Ok([ amount_in |-> 0, amount_out |-> amount_out ])))

\* decrease_amounts as it would be if an order of the tick's age counted as
\* fulfilled (<= on the ages, tested first).
decrease_amounts_fulfilled_first(limit_order, tick, amount, overflow_checks) ==
    IF amount > limit_order.amount
    THEN Err("AMOUNT_EXCEEDS_LIMIT_ORDER_INPUT_AMOUNT")
    ELSE IF limit_order.age <= tick.age
    THEN decrease_fulfilled(limit_order, amount)
    ELSE Err("LIMIT_ORDER_AND_POOL_ARE_OUT_OF_SYNC")

\* decrease_amounts as it would be if the amount were compared with the
\* order only once the order is known to be filled.
decrease_amounts_amount_checked_late(limit_order, tick, amount, overflow_checks) ==
    IF limit_order.age = tick.age
    THEN Ok([ amount_in |-> amount, amount_out |-> 0 ])
    ELSE IF amount > limit_order.amount
    THEN Err("AMOUNT_EXCEEDS_LIMIT_ORDER_INPUT_AMOUNT")
    ELSE
    Try(UncheckedU64(limit_order.age + 1, overflow_checks), LAMBDA age_1 :
    IF age_1 = tick.age
    THEN decrease_partially_filled(limit_order, tick, amount, overflow_checks)
    ELSE
    Try(UncheckedU64(limit_order.age + 2, overflow_checks), LAMBDA age_2 :
    IF age_2 <= tick.age
    THEN decrease_fulfilled(limit_order, amount)
    ELSE Err("LIMIT_ORDER_AND_POOL_ARE_OUT_OF_SYNC")))

\* limit_order.rs 87-112: (amount_in, amount_out) by the age of the order
\* against the age of its tick; age + 1 and age + 2 are plain u64 additions.
decrease_amounts(limit_order, tick, amount, overflow_checks) ==
    IF amount > limit_order.amount
    THEN Err("AMOUNT_EXCEEDS_LIMIT_ORDER_INPUT_AMOUNT")
    ELSE IF limit_order.age = tick.age
    THEN Ok([ amount_in |-> amount, amount_out |-> 0 ])
    ELSE
    Try(UncheckedU64(limit_order.age + 1, overflow_checks), LAMBDA age_1 :
    IF age_1 = tick.age
    THEN decrease_partially_filled(limit_order, tick, amount, overflow_checks)
    ELSE
    Try(UncheckedU64(limit_order.age + 2, overflow_checks), LAMBDA age_2 :
    IF age_2 <= tick.age
    THEN decrease_fulfilled(limit_order, amount)
    ELSE Err("LIMIT_ORDER_AND_POOL_ARE_OUT_OF_SYNC")))

\* limit_order.rs 120-127, 132-139: the reward of the filled part, paid in
\* the output token of the order.
decrease_reward(filled_amount, olp_fee_owed, orders_filled_amount) ==
    IF filled_amount > 0
    THEN IF orders_filled_amount = 0
         THEN Err("LIMIT_ORDER_AND_POOL_ARE_OUT_OF_SYNC")
         ELSE try_mul_div(olp_fee_owed, filled_amount, orders_filled_amount, FALSE)
    ELSE Ok(0)

\* decrease_payout as it would be if the fee owed were shared among the
\* filled amount of the output token.
decrease_payout_by_output_counter(fusion_pool, limit_order, amount, amount_in, amount_out, overflow_checks) ==
    Try(UncheckedU64(amount - amount_in, overflow_checks), LAMBDA filled_amount :
    Try(IF limit_order.a_to_b
        THEN decrease_reward(filled_amount, fusion_pool.olp_fee_owed_b,
                             fusion_pool.orders_filled_amount_b)
        ELSE decrease_reward(filled_amount, fusion_pool.olp_fee_owed_a,
                             fusion_pool.orders_filled_amount_a),
        LAMBDA reward :
    Try(UncheckedU64(amount_out + reward, overflow_checks), LAMBDA with_reward :
    IF limit_order.a_to_b
    THEN Ok(LimitOrderDecreaseQuote(amount_in, with_reward, 0, reward))
    ELSE Ok(LimitOrderDecreaseQuote(with_reward, amount_in, reward, 0)))))

\* limit_order.rs 114-143: what goes to the owner in each token, before
\* transfer fees.
decrease_payout(fusion_pool, limit_order, amount, amount_in, amount_out, overflow_checks) ==
    Try(UncheckedU64(amount - amount_in, overflow_checks), LAMBDA filled_amount :
    Try(IF limit_order.a_to_b
        THEN decrease_reward(filled_amount, fusion_pool.olp_fee_owed_b,
                             fusion_pool.orders_filled_amount_a)
        ELSE decrease_reward(filled_amount, fusion_pool.olp_fee_owed_a,
                             fusion_pool.orders_filled_amount_b),
        LAMBDA reward :
    Try(UncheckedU64(amount_out + reward, overflow_checks), LAMBDA with_reward :
    IF limit_order.a_to_b
    THEN Ok(LimitOrderDecreaseQuote(amount_in, with_reward, 0, reward))
    ELSE Ok(LimitOrderDecreaseQuote(with_reward, amount_in, reward, 0)))))

\* limit_order.rs 79-154
decrease_limit_order_quote(fusion_pool, limit_order, tick, amount, transfer_fee_a, transfer_fee_b, overflow_checks) ==
    Try(decrease_amounts(limit_order, tick, amount, overflow_checks), LAMBDA amounts :
    Try(decrease_payout(fusion_pool, limit_order, amount, amounts.amount_in,
                        amounts.amount_out, overflow_checks),
        LAMBDA payout :
    Try(try_apply_transfer_fee(payout.amount_out_a, transfer_fee_a), LAMBDA amount_out_a :
    Try(try_apply_transfer_fee(payout.amount_out_b, transfer_fee_b), LAMBDA amount_out_b :
    Ok(LimitOrderDecreaseQuote(amount_out_a, amount_out_b, payout.reward_a,
                               payout.reward_b))))))

\* ------------------------------------------------------------------------
\* quote/order_book.rs: get_order_book_side.  A price, an f64 in the code,
\* is a whole number of 1 / Q128 here, so that the price of a sqrt price is
\* its square; the arithmetic of prices is exact and rounds down.
\* ------------------------------------------------------------------------

\* The price 1.0
PriceOne == Q128

\* The smallest price step get_order_book_side accepts (0.0000000000001 in
\* the code): the smallest price above 0.
MIN_PRICE_STEP == 1

\* The greatest max_num_entries get_order_book_side accepts.
MAX_NUM_ENTRIES == 100

\* math/price.rs: (sqrt_price / 2^64)^2 * 10^(decimals_a - decimals_b), for
\* decimals_a >= decimals_b
sqrt_price_to_price(sqrt_price, decimals_a, decimals_b) ==
    sqrt_price * sqrt_price * 10 ^ (decimals_a - decimals_b)

\* floor of the square root, no more than MAX_SQRT_PRICE + 1
FloorSqrt(n) ==
    CHOOSE r \in 0..(MAX_SQRT_PRICE + 1) :
        /\ r * r <= n
        /\ r = MAX_SQRT_PRICE + 1 \/ n < (r + 1) * (r + 1)

\* math/price.rs: floor(sqrt(price / 10^(decimals_a - decimals_b)) * 2^64)
price_to_sqrt_price(price, decimals_a, decimals_b) ==
    FloorSqrt(price \div 10 ^ (decimals_a - decimals_b))

\* 1.0 / price
inverted_price(price) == (PriceOne * PriceOne) \div price

\* f64::clamp, Ord::clamp
clamp(x, min, max) == IF x < min THEN min ELSE IF x > max THEN max ELSE x

\* u64::saturating_add
saturating_add(x, y) == Min(x + y, U64_MAX)

\* f64 as u64: saturating
f64_as_u64(x) == IF x < 0 THEN 0 ELSE IF x > U64_MAX THEN U64_MAX ELSE x

\* order_book.rs 186-209: the amounts of both tokens between two sqrt
\* prices, computed in f64 and saturated. With a sqrt price of 0 the
\* quotient of line 200 is infinite when b is positive, which saturates,
\* and is not a number when b is 0, which the cast makes 0.
try_get_amount_delta_a_and_b(sqrt_price_1_x64, sqrt_price_2_x64, liquidity) ==
    LET diff == IF sqrt_price_2_x64 >= sqrt_price_1_x64
                THEN sqrt_price_2_x64 - sqrt_price_1_x64
                ELSE sqrt_price_1_x64 - sqrt_price_2_x64
        b == (liquidity * diff) \div Q64
        a == IF sqrt_price_1_x64 * sqrt_price_2_x64 = 0
             THEN IF liquidity * diff > 0 THEN U64_MAX + 1 ELSE 0
             ELSE (liquidity * diff * Q64) \div (sqrt_price_1_x64 * sqrt_price_2_x64)
    IN  Ok([a |-> f64_as_u64(a), b |-> f64_as_u64(b)])

OrderBookEntry(concentrated_total, concentrated_total_quote, limit_total, limit_total_quote, price, ask_side) ==
    [ concentrated_amount |-> 0,
      concentrated_amount_quote |-> 0,
      concentrated_total |-> concentrated_total,
      concentrated_total_quote |-> concentrated_total_quote,
      limit_amount |-> 0,
      limit_amount_quote |-> 0,
      limit_total |-> limit_total,
      limit_total_quote |-> limit_total_quote,
      price |-> price,
      ask_side |-> ask_side ]

\* order_book.rs 58: a_to_b is false (ASK side) if the price_step is
\* positive and not inverted.
order_book_a_to_b(price_step, invert_price) == (price_step < 0) # invert_price

\* The f64 current_price of order_book.rs: n / d in units of 1 / PriceOne.
\* The inverse of a price is not on the grid of these units, so it is
\* kept as a quotient; d = 0 is the infinite inverse of the price 0.
PriceRatio(n, d) == [n |-> n, d |-> d]

\* order_book.rs 60-63
order_book_current_price(fusion_pool, invert_price, decimals_a, decimals_b) ==
    LET price == sqrt_price_to_price(fusion_pool.sqrt_price, decimals_a, decimals_b)
    IN  IF invert_price THEN PriceRatio(PriceOne * PriceOne, price) ELSE PriceRatio(price, 1)

\* order_book.rs 85: current_price == price
price_ratio_is(current_price_of_pool, price) ==
    /\ current_price_of_pool.d # 0
    /\ current_price_of_pool.n = price * current_price_of_pool.d

\* order_book.rs 81-82
order_book_min_price == sqrt_price_to_price(MIN_SQRT_PRICE, 1, 1)

order_book_max_price == sqrt_price_to_price(MAX_SQRT_PRICE, 1, 1)

\* order_book.rs 65-69: the price of the pool on the grid of the price step.
\* An infinite price stays infinite, and line 88 clamps whatever is above
\* max_price - price_step to max_price.
order_book_first_price(current_price_of_pool, price_step) ==
    LET price_step_abs == unsigned_abs(price_step)
    IN  IF current_price_of_pool.d = 0
        THEN order_book_max_price + price_step_abs
        ELSE IF price_step > 0
        THEN (current_price_of_pool.n \div (current_price_of_pool.d * price_step_abs)) * price_step_abs
        ELSE CeilDiv(current_price_of_pool.n, current_price_of_pool.d * price_step_abs) * price_step_abs

\* order_book.rs 91-100: the sqrt price of the price of an entry
order_book_sqrt_price(order_book_price, invert_price, decimals_a, decimals_b) ==
    clamp(price_to_sqrt_price(IF invert_price THEN inverted_price(order_book_price)
                              ELSE order_book_price,
                              decimals_a, decimals_b),
          MIN_SQRT_PRICE, MAX_SQRT_PRICE)

\* order_book.rs 118-122: the scan for the next tick
order_book_next_tick(seq, tick_index, a_to_b) ==
    IF a_to_b THEN prev_initialized_tick(seq, tick_index)
    ELSE next_initialized_tick(seq, tick_index)

\* order_book.rs 137-154: the concentrated liquidity up to next_sqrt_price
\* goes to the entry and to the totals; += on the amounts is unchecked.
order_book_concentrated(loc, next_sqrt_price, a_to_b, overflow_checks) ==
    Try(try_get_amount_delta_a_and_b(loc.current_sqrt_price, next_sqrt_price,
                                     loc.current_liquidity),
        LAMBDA amounts :
    Let(IF a_to_b THEN amounts.b ELSE amounts.a, LAMBDA concentrated_amount :
    Let(IF a_to_b THEN amounts.a ELSE amounts.b, LAMBDA concentrated_amount_quote :
    Try(UncheckedU64(loc.book_entry.concentrated_amount + concentrated_amount,
                     overflow_checks),
        LAMBDA entry_amount_sum :
    Try(UncheckedU64(loc.book_entry.concentrated_total + concentrated_amount,
                     overflow_checks),
        LAMBDA entry_total_sum :
    Try(UncheckedU64(loc.concentrated_total + concentrated_amount, overflow_checks),
        LAMBDA total_sum :
    Ok([ loc EXCEPT
           !.book_entry =
               [ @ EXCEPT
                   !.concentrated_amount = entry_amount_sum,
                   !.concentrated_amount_quote =
                       saturating_add(@, concentrated_amount_quote),
                   !.concentrated_total = entry_total_sum,
                   !.concentrated_total_quote =
                       saturating_add(@, concentrated_amount_quote) ],
           !.concentrated_total = total_sum,
           !.concentrated_total_quote = saturating_add(@, concentrated_amount_quote),
           !.current_sqrt_price = next_sqrt_price ])))))))

\* order_book.rs 158-173: the limit orders of the tick that is reached go
\* to the entry and to the totals; every + and += is unchecked.
order_book_limit_orders(loc, tick, a_to_b, overflow_checks) ==
    Try(UncheckedU64(tick.open_orders_input + tick.part_filled_orders_remaining_input,
                     overflow_checks),
        LAMBDA swap_in :
    Try(IF swap_in > 0
        THEN get_limit_order_output_amount(swap_in, ~a_to_b, loc.current_sqrt_price, FALSE)
        ELSE Ok(0),
        LAMBDA swap_out :
    Try(UncheckedU64(loc.book_entry.limit_amount + swap_in, overflow_checks),
        LAMBDA entry_limit_amount :
    Try(UncheckedU64(loc.book_entry.limit_total + swap_in, overflow_checks),
        LAMBDA entry_limit_total :
    Try(UncheckedU64(loc.limit_total + swap_in, overflow_checks),
        LAMBDA limit_total_sum :
    Try(UncheckedU64(loc.book_entry.limit_amount_quote + swap_out, overflow_checks),
        LAMBDA entry_limit_amount_quote :
    Try(UncheckedU64(loc.book_entry.limit_total_quote + swap_out, overflow_checks),
        LAMBDA entry_limit_total_quote :
    Try(UncheckedU64(loc.limit_total_quote + swap_out, overflow_checks),
        LAMBDA limit_total_quote_sum :
    Ok([ loc EXCEPT
           !.book_entry =
               [ @ EXCEPT
                   !.limit_amount = entry_limit_amount,
                   !.limit_total = entry_limit_total,
                   !.limit_amount_quote = entry_limit_amount_quote,
                   !.limit_total_quote = entry_limit_total_quote ],
           !.limit_total = limit_total_sum,
           !.limit_total_quote = limit_total_quote_sum ])))))))))

\* order_book.rs 157-177: move to the next tick
order_book_cross_tick(loc, next, a_to_b, overflow_checks) ==
    Try(IF next.tick = <<>> THEN Ok(loc)
        ELSE order_book_limit_orders(loc, next.tick[1], a_to_b, overflow_checks),
        LAMBDA with_orders :
    Try(get_next_liquidity(with_orders.current_liquidity, next.tick, a_to_b,
                           overflow_checks),
        LAMBDA next_liquidity :
    Ok([ with_orders EXCEPT
           !.current_liquidity = next_liquidity,
           !.current_tick_index = IF a_to_b THEN next.index - 1 ELSE next.index ])))

\* order_book.rs 129-178: the body of the inner loop once the scan has
\* found next, the next tick and its index.
order_book_tick(loc, next, next_order_book_sqrt_price, a_to_b, overflow_checks) ==
    Let(tick_index_to_sqrt_price(next.index), LAMBDA next_tick_sqrt_price :
    Let(IF a_to_b THEN Max(next_order_book_sqrt_price, next_tick_sqrt_price)
        ELSE Min(next_order_book_sqrt_price, next_tick_sqrt_price),
        LAMBDA next_sqrt_price :
    Try(order_book_concentrated(loc, next_sqrt_price, a_to_b, overflow_checks),
        LAMBDA moved :
    IF moved.current_sqrt_price = next_tick_sqrt_price
    THEN order_book_cross_tick(moved, next, a_to_b, overflow_checks)
    ELSE Ok(moved))))

\* order_book.rs 124-127: what the call returns when the scan for the next
\* tick fails.
order_book_scan_failed(entries, scan) == Ok(entries)

\* ------------------------------------------------------------------------
\* math/position.rs: position_status, position_ratio_x64
\* ------------------------------------------------------------------------

\* math/tick.rs: the two tick indexes, lower first
order_tick_indexes(tick_index_1, tick_index_2) ==
    IF tick_index_1 < tick_index_2
    THEN [tick_lower_index |-> tick_index_1, tick_upper_index |-> tick_index_2]
    ELSE [tick_lower_index |-> tick_index_2, tick_upper_index |-> tick_index_1]

\* position_status as it would be with exclusive boundaries.
position_status_exclusive(current_sqrt_price, tick_index_1, tick_index_2) ==
    LET tick_range == order_tick_indexes(tick_index_1, tick_index_2)
        sqrt_price_lower == tick_index_to_sqrt_price(tick_range.tick_lower_index)
        sqrt_price_upper == tick_index_to_sqrt_price(tick_range.tick_upper_index)
    IN  IF tick_index_1 = tick_index_2 THEN "Invalid"
        ELSE IF current_sqrt_price < sqrt_price_lower THEN "PriceBelowRange"
        ELSE IF current_sqrt_price > sqrt_price_upper THEN "PriceAboveRange"
        ELSE "PriceInRange"

\* position.rs 47-62
position_status(current_sqrt_price, tick_index_1, tick_index_2) ==
    LET tick_range == order_tick_indexes(tick_index_1, tick_index_2)
        sqrt_price_lower == tick_index_to_sqrt_price(tick_range.tick_lower_index)
        sqrt_price_upper == tick_index_to_sqrt_price(tick_range.tick_upper_index)
    IN  IF tick_index_1 = tick_index_2 THEN "Invalid"
        ELSE IF current_sqrt_price <= sqrt_price_lower THEN "PriceBelowRange"
        ELSE IF current_sqrt_price >= sqrt_price_upper THEN "PriceAboveRange"
        ELSE "PriceInRange"

\* position.rs 29-31
is_position_in_range(current_sqrt_price, tick_index_1, tick_index_2) ==
    position_status(current_sqrt_price, tick_index_1, tick_index_2) = "PriceInRange"

PositionRatio(ratio_a, ratio_b) == [ratio_a |-> ratio_a, ratio_b |-> ratio_b]

\* U256 and u128 subtraction: a negative difference panics or wraps; the
\* wrapped value is left as it is, beyond every ratio.
UncheckedSub(x, y, overflow_checks) ==
    IF x >= y THEN Ok(x - y)
    ELSE IF overflow_checks THEN Err(PANIC)
    ELSE Ok(x - y + (U128_MAX + 1) * (U128_MAX + 1))

\* U256 division: a zero divisor panics
U256Div(x, y) == IF y = 0 THEN Err(PANIC) ELSE Ok(x \div y)

\* The ratio of a position in range as it would be if each part were
\* computed from its own deposit and rounded down.
position_ratio_in_range_each_rounded(current_sqrt_price, lower_sqrt_price, upper_sqrt_price, overflow_checks) ==
    Let(Q64, LAMBDA one_x64 :
    Let(current_sqrt_price * current_sqrt_price, LAMBDA price_x128 :
    Try(U256Div(one_x64 * Q64, current_sqrt_price), LAMBDA deposit_a_1 :
    Try(U256Div(one_x64 * Q64, upper_sqrt_price), LAMBDA deposit_a_2 :
    Try(UncheckedSub(deposit_a_1, deposit_a_2, overflow_checks), LAMBDA deposit_a_diff :
    Let((deposit_a_diff * price_x128) \div Q64, LAMBDA deposit_a :
    Try(UncheckedSub(current_sqrt_price, lower_sqrt_price, overflow_checks),
        LAMBDA deposit_b_1 :
    Let(one_x64 * deposit_b_1, LAMBDA deposit_b :
    Let(deposit_a + deposit_b, LAMBDA total_deposit :
    Try(U256Div(deposit_a * one_x64, total_deposit), LAMBDA ratio_a :
    Try(U256Div(deposit_b * one_x64, total_deposit), LAMBDA ratio_b :
    Ok(PositionRatio(ratio_a, ratio_b)))))))))))))

\* position.rs 89-108: the ratio of a position in range
position_ratio_in_range(current_sqrt_price, lower_sqrt_price, upper_sqrt_price, overflow_checks) ==
    Let(Q64, LAMBDA one_x64 :
    Let(current_sqrt_price * current_sqrt_price, LAMBDA price_x128 :
    Try(U256Div(one_x64 * Q64, current_sqrt_price), LAMBDA deposit_a_1 :
    Try(U256Div(one_x64 * Q64, upper_sqrt_price), LAMBDA deposit_a_2 :
    Try(UncheckedSub(deposit_a_1, deposit_a_2, overflow_checks), LAMBDA deposit_a_diff :
    Let((deposit_a_diff * price_x128) \div Q64, LAMBDA deposit_a :
    Try(UncheckedSub(current_sqrt_price, lower_sqrt_price, overflow_checks),
        LAMBDA deposit_b_1 :
    Let(one_x64 * deposit_b_1, LAMBDA deposit_b :
    Let(deposit_a + deposit_b, LAMBDA total_deposit :
    Try(U256Div(deposit_a * one_x64, total_deposit), LAMBDA ratio_a :
    Try(UncheckedSub(one_x64, ratio_a, overflow_checks), LAMBDA ratio_b :
    Ok(PositionRatio(ratio_a, ratio_b)))))))))))))

\* position.rs 74-111
position_ratio_x64(current_sqrt_price, tick_index_1, tick_index_2, overflow_checks) ==
    LET status == position_status(current_sqrt_price, tick_index_1, tick_index_2)
        tick_range == order_tick_indexes(tick_index_1, tick_index_2)
    IN  CASE status = "Invalid" -> Ok(PositionRatio(0, 0))
          [] status = "PriceBelowRange" -> Ok(PositionRatio(Q64, 0))
          [] status = "PriceAboveRange" -> Ok(PositionRatio(0, Q64))
          [] status = "PriceInRange" ->
                 position_ratio_in_range(
                     current_sqrt_price,
                     tick_index_to_sqrt_price(tick_range.tick_lower_index),
                     tick_index_to_sqrt_price(tick_range.tick_upper_index),
                     overflow_checks)

\* ------------------------------------------------------------------------
\* math/u256_math.rs: U256Muldiv, four words, least significant first
\* ------------------------------------------------------------------------

\* The bits of one word (u64 in the source); a u128 is two words wide.
WordBits == 2

NUM_WORDS == 4

U64_RESOLUTION == WordBits

WordBase == 2 ^ U64_RESOLUTION

WideBase == WordBase * WordBase

\* u128 -> u64: the low word, the high word
lo(x) == x % WordBase

hi(x) == (x \div WordBase) % WordBase

hi_lo(high, low) == high * WordBase + low

\* wrapping_sub, wrapping_add and wrapping_mul of u128; of u64
wrapping_u128(x) == (x + 2 * WideBase) % WideBase

wrapping_u64(x) == (x + 2 * WordBase) % WordBase

\* +=, -= and * of u128 in a build with or without overflow checks
UncheckedWide(x, overflow_checks) ==
    IF 0 <= x /\ x < WideBase THEN Ok(x)
    ELSE IF overflow_checks THEN Err(PANIC)
    ELSE Ok(wrapping_u128(x))

U256Muldiv_new(h, l) ==
    [ i \in 0..(NUM_WORDS - 1) |->
        IF i = 0 THEN lo(l) ELSE IF i = 1 THEN hi(l) ELSE IF i = 2 THEN lo(h) ELSE hi(h) ]

\* The number a U256Muldiv stands for, and the U256Muldiv of a number.
u256_value(items) ==
    items[0] + WordBase * (items[1] + WordBase * (items[2] + WordBase * items[3]))

u256_of(n) == U256Muldiv_new(n \div WideBase, n % WideBase)

num_words(items) ==
    LET used == { i \in 0..(NUM_WORDS - 1) : items[i] # 0 }
    IN  IF used = {} THEN 0 ELSE (CHOOSE i \in used : \A j \in used : j <= i) + 1

\* self.items[index], which panics out of bounds
get_word(items, index) ==
    IF index \in 0..(NUM_WORDS - 1) THEN Ok(items[index]) ELSE Err(PANIC)

update_word(items, index, value) == [items EXCEPT ![index] = value]

leading_zeros(word) ==
    U64_RESOLUTION - Cardinality({ k \in 0..(U64_RESOLUTION - 1) : 2 ^ k <= word })

shift_word_left(items) ==
    [ i \in 0..(NUM_WORDS - 1) |-> IF i = 0 THEN 0 ELSE items[i - 1] ]

shift_word_right(items) ==
    [ i \in 0..(NUM_WORDS - 1) |-> IF i = NUM_WORDS - 1 THEN 0 ELSE items[i + 1] ]

RECURSIVE shift_words_left(_, _)
shift_words_left(items, shift_amount) ==
    IF shift_amount >= U64_RESOLUTION
    THEN shift_words_left(shift_word_left(items), shift_amount - U64_RESOLUTION)
    ELSE items

RECURSIVE shift_words_right(_, _)
shift_words_right(items, shift_amount) ==
    IF shift_amount >= U64_RESOLUTION
    THEN shift_words_right(shift_word_right(items), shift_amount - U64_RESOLUTION)
    ELSE items

\* u256_math.rs 86-110
shift_left(items, shift_amount) ==
    IF shift_amount >= U64_RESOLUTION * NUM_WORDS THEN U256Muldiv_new(0, 0)
    ELSE LET shifted == shift_words_left(items, shift_amount)
             bits    == shift_amount % U64_RESOLUTION
         IN  IF bits = 0 THEN shifted
             ELSE [ i \in 0..(NUM_WORDS - 1) |->
                      IF i = 0 THEN (shifted[0] * (2 ^ bits)) % WordBase
                      ELSE ((shifted[i] * (2 ^ bits)) % WordBase)
                           + (shifted[i - 1] \div (2 ^ (U64_RESOLUTION - bits))) ]

\* u256_math.rs 124-148
shift_right(items, shift_amount) ==
    IF shift_amount >= U64_RESOLUTION * NUM_WORDS THEN U256Muldiv_new(0, 0)
    ELSE LET shifted == shift_words_right(items, shift_amount)
             bits    == shift_amount % U64_RESOLUTION
         IN  IF bits = 0 THEN shifted
             ELSE [ i \in 0..(NUM_WORDS - 1) |->
                      IF i = NUM_WORDS - 1 THEN shifted[i] \div (2 ^ bits)
                      ELSE (shifted[i] \div (2 ^ bits))
                           + ((shifted[i + 1] * (2 ^ (U64_RESOLUTION - bits))) % WordBase) ]

\* u256_math.rs 510-519: the loop that lowers the estimate qhat
RECURSIVE qhat_loop(_, _, _, _, _, _, _)
qhat_loop(qhat, rhat, cmp1, cmp2, d1, d1_2, overflow_checks) ==
    IF ~(hi(qhat) # 0 \/ cmp2 > cmp1) THEN Ok(qhat)
    ELSE
    Try(UncheckedWide(qhat - 1, overflow_checks), LAMBDA next_qhat :
    Try(UncheckedWide(rhat + d1, overflow_checks), LAMBDA next_rhat :
    IF hi(next_rhat) # 0 THEN Ok(next_qhat)
    ELSE
    Try(UncheckedWide(cmp2 - d1_2, overflow_checks), LAMBDA next_cmp2 :
    qhat_loop(next_qhat, next_rhat, hi_lo(lo(next_rhat), lo(cmp1)), next_cmp2,
              d1, d1_2, overflow_checks))))

\* u256_math.rs 521-528: dividend -= qhat * divisor over the words of the
\* divisor; the result is the dividend and the borrow k
RECURSIVE multiply_subtract(_, _, _, _, _, _, _, _)
multiply_subtract(i, index, num_divisor_words, qhat, dividend, divisor, k, overflow_checks) ==
    IF i >= num_divisor_words THEN Ok([dividend |-> dividend, k |-> k])
    ELSE
    Try(UncheckedWide(qhat * divisor[i], overflow_checks), LAMBDA product :
    Let(wrapping_u128(wrapping_u128(dividend[index + i] - k) - lo(product)), LAMBDA t :
    multiply_subtract(i + 1, index, num_divisor_words, qhat,
                      update_word(dividend, index + i, lo(t)), divisor,
                      wrapping_u64((product \div WordBase) - hi(t)), overflow_checks)))

\* u256_math.rs 546-550: dividend += divisor over the words of the divisor;
\* the result is the dividend and the carry k
RECURSIVE add_back(_, _, _, _, _, _)
add_back(i, index, num_divisor_words, dividend, divisor, k) ==
    IF i >= num_divisor_words THEN [dividend |-> dividend, k |-> k]
    ELSE LET t == wrapping_u128(wrapping_u128(dividend[index + i] + divisor[i]) + k)
         IN  add_back(i + 1, index, num_divisor_words,
                      update_word(dividend, index + i, lo(t)), divisor, t \div WordBase)

\* u256_math.rs 484-563: one digit of the quotient. The result is the
\* quotient, the dividend and the carry space the caller passed by reference.
div_loop(index, num_divisor_words, dividend, dividend_carry_space, divisor, quotient, overflow_checks) ==
    LET use_carry == (index + num_divisor_words) = NUM_WORDS
    IN
    Try(IF use_carry THEN Ok(dividend_carry_space)
        ELSE get_word(dividend, index + num_divisor_words), LAMBDA div_hi :
    Try(get_word(dividend, index + num_divisor_words - 1), LAMBDA d0_low :
    Try(get_word(divisor, num_divisor_words - 1), LAMBDA d1 :
    Let(hi_lo(div_hi, d0_low), LAMBDA d0 :
    Let(d0 \div d1, LAMBDA qhat0 :
    Try(UncheckedWide(d1 * qhat0, overflow_checks), LAMBDA d1_qhat :
    Try(UncheckedWide(d0 - d1_qhat, overflow_checks), LAMBDA rhat0 :
    Try(get_word(dividend, index + num_divisor_words - 2), LAMBDA d0_2 :
    Try(get_word(divisor, num_divisor_words - 2), LAMBDA d1_2 :
    Try(qhat_loop(qhat0, rhat0, hi_lo(lo(rhat0), d0_2), wrapping_u128(qhat0 * d1_2),
                  d1, d1_2, overflow_checks), LAMBDA qhat :
    Try(multiply_subtract(0, index, num_divisor_words, qhat, dividend, divisor, 0,
                          overflow_checks), LAMBDA subtracted :
    Try(IF use_carry THEN Ok(dividend_carry_space)
        ELSE get_word(subtracted.dividend, index + num_divisor_words), LAMBDA d_head :
    Let(lo(wrapping_u128(d_head - subtracted.k)), LAMBDA t_low :
    Let(IF use_carry THEN subtracted.dividend
        ELSE update_word(subtracted.dividend, index + num_divisor_words, t_low),
        LAMBDA dividend_after :
    Let(IF use_carry THEN t_low ELSE dividend_carry_space, LAMBDA carry_after :
    IF subtracted.k > d_head
    THEN Try(UncheckedWide(qhat - 1, overflow_checks), LAMBDA lowered :
         Let(add_back(0, index, num_divisor_words, dividend_after, divisor, 0),
             LAMBDA added :
         Try(get_word(added.dividend, index + num_divisor_words), LAMBDA head :
         Let(lo(wrapping_u128(head + added.k)), LAMBDA new_carry :
         Ok([ quotient |-> update_word(quotient, index, lo(lowered)),
              dividend |-> IF use_carry THEN added.dividend
                           ELSE update_word(added.dividend, index + num_divisor_words,
                                            new_carry),
              dividend_carry_space |-> IF use_carry THEN new_carry
                                       ELSE carry_after ])))))
    ELSE Ok([ quotient |-> update_word(quotient, index, lo(qhat)),
              dividend |-> dividend_after,
              dividend_carry_space |-> carry_after ]))))))))))))))))

\* u256_math.rs 330-343: dividends below 2^128
div_u128(dividend, divisor, return_remainder) ==
    LET wide_dividend == hi_lo(dividend[1], dividend[0])
        wide_divisor  == hi_lo(divisor[1], divisor[0])
    IN  [ quotient  |-> U256Muldiv_new(0, wide_dividend \div wide_divisor),
          remainder |-> IF return_remainder
                        THEN U256Muldiv_new(0, wide_dividend % wide_divisor)
                        ELSE U256Muldiv_new(0, 0) ]

\* u256_math.rs 346-361: a divisor of one word; the result is the quotient
\* and the last remainder k
RECURSIVE div_single_word(_, _, _, _, _)
div_single_word(j, dividend, divisor, quotient, k) ==
    IF j < 0 THEN [quotient |-> quotient, k |-> k]
    ELSE LET d1 == hi_lo(lo(k), dividend[j])
             d2 == divisor[0]
             q  == d1 \div d2
         IN  div_single_word(j - 1, dividend, divisor, update_word(quotient, j, lo(q)),
                             d1 - d2 * q)

\* u256_math.rs 377-381: the digits of the quotient, most significant first
RECURSIVE div_digits(_, _, _, _, _, _, _)
div_digits(j, num_divisor_words, dividend, dividend_carry_space, divisor, quotient, overflow_checks) ==
    IF j < 0 THEN Ok([quotient |-> quotient, dividend |-> dividend])
    ELSE Try(div_loop(j, num_divisor_words, dividend, dividend_carry_space, divisor,
                      quotient, overflow_checks), LAMBDA digit :
         div_digits(j - 1, num_divisor_words, digit.dividend, digit.dividend_carry_space,
                    divisor, digit.quotient, overflow_checks))

\* u256_math.rs 364-390: the normalized long division
div_normalized(dividend, divisor, return_remainder, overflow_checks) ==
    LET num_dividend_words == num_words(dividend)
        num_divisor_words  == num_words(divisor)
        s == leading_zeros(divisor[num_divisor_words - 1])
        b == leading_zeros(dividend[num_dividend_words - 1])
        dividend_carry_space ==
            IF num_dividend_words = NUM_WORDS /\ b < s
            THEN dividend[num_dividend_words - 1] \div (2 ^ (U64_RESOLUTION - s))
            ELSE 0
    IN  Try(div_digits(num_dividend_words - num_divisor_words, num_divisor_words,
                       shift_left(dividend, s), dividend_carry_space,
                       shift_left(divisor, s), U256Muldiv_new(0, 0), overflow_checks),
            LAMBDA digits :
            Ok([ quotient  |-> digits.quotient,
                 remainder |-> IF return_remainder THEN shift_right(digits.dividend, s)
                               ELSE U256Muldiv_new(0, 0) ]))

\* u256_math.rs 311-391: U256Muldiv::div
div(dividend, divisor, return_remainder, overflow_checks) ==
    LET num_dividend_words == num_words(dividend)
        num_divisor_words  == num_words(divisor)
        zero               == U256Muldiv_new(0, 0)
    IN  IF num_divisor_words = 0 THEN Err(PANIC)
        ELSE IF num_dividend_words = 0 THEN Ok([quotient |-> zero, remainder |-> zero])
        ELSE IF num_dividend_words < num_divisor_words
        THEN Ok([ quotient  |-> zero,
                  remainder |-> IF return_remainder THEN dividend ELSE zero ])
        ELSE IF num_dividend_words < 3
        THEN Ok(div_u128(dividend, divisor, return_remainder))
        ELSE IF num_divisor_words = 1
        THEN LET single == div_single_word(num_dividend_words - 1, dividend, divisor, zero, 0)
             IN  Ok([ quotient  |-> single.quotient,
                      remainder |-> IF return_remainder THEN U256Muldiv_new(0, single.k)
                                    ELSE zero ])
        ELSE div_normalized(dividend, divisor, return_remainder, overflow_checks)

\* ------------------------------------------------------------------------
\* quote/limit_order.rs: limit_order_quote_by_input_token, _by_output_token
\* ------------------------------------------------------------------------

MAX_CLP_REWARD_RATE == 10000

PROTOCOL_FEE_RATE_MUL_VALUE == 10000

\* The denominator of fee_rate
FEE_RATE_DENOMINATOR == FEE_RATE_MUL_VALUE

\* The rates of a pool that the limit order quotes read
QuotePoolFacade(fee_rate, clp_reward_rate, order_protocol_fee_rate) ==
    [ fee_rate |-> fee_rate,
      clp_reward_rate |-> clp_reward_rate,
      order_protocol_fee_rate |-> order_protocol_fee_rate ]

\* limit_order.rs 25-42
limit_order_quote_by_input_token(amount_in, a_to_b_order, tick_index, fusion_pool, overflow_checks) ==
    Let(tick_index_to_sqrt_price(tick_index), LAMBDA sqrt_price :
    Try(get_limit_order_output_amount(amount_in, a_to_b_order, sqrt_price, FALSE),
        LAMBDA amount_out :
    Try(try_reverse_apply_swap_fee(amount_out, fusion_pool.fee_rate), LAMBDA pre_fee :
    Try(UncheckedU64(pre_fee - amount_out, overflow_checks), LAMBDA total_swap_fee :
    Try(try_mul_div(total_swap_fee, fusion_pool.order_protocol_fee_rate,
                    PROTOCOL_FEE_RATE_MUL_VALUE, FALSE), LAMBDA protocol_fee :
    Try(UncheckedU64(total_swap_fee - protocol_fee, overflow_checks), LAMBDA swap_fee :
    Try(UncheckedU16(MAX_CLP_REWARD_RATE - fusion_pool.clp_reward_rate, overflow_checks),
        LAMBDA kept_rate :
    Try(try_mul_div(swap_fee, kept_rate, MAX_CLP_REWARD_RATE, FALSE), LAMBDA deducted :
    Try(UncheckedU64(swap_fee - deducted, overflow_checks), LAMBDA reward :
    UncheckedU64(amount_out + reward, overflow_checks))))))))))

\* ------------------------------------------------------------------------
\* f64: the arithmetic of limit_order_quote_by_output_token
\* ------------------------------------------------------------------------

\* A natural number of any size is the sequence of its digits to the base
\* LimbBase, the least significant first, without a leading 0.
LimbBase == 2 ^ 14

RECURSIVE big_trim(_)
big_trim(a) ==
    IF a # <<>> /\ a[Len(a)] = 0 THEN big_trim(SubSeq(a, 1, Len(a) - 1)) ELSE a

RECURSIVE big_of(_)
big_of(n) == IF n = 0 THEN <<>> ELSE <<n % LimbBase>> \o big_of(n \div LimbBase)

RECURSIVE big_to_int(_)
big_to_int(a) == IF a = <<>> THEN 0 ELSE a[1] + LimbBase * big_to_int(Tail(a))

limb(a, i) == IF i <= Len(a) THEN a[i] ELSE 0

RECURSIVE big_add_from(_, _, _, _)
big_add_from(a, b, i, carry) ==
    IF i > Len(a) /\ i > Len(b) THEN (IF carry = 0 THEN <<>> ELSE <<carry>>)
    ELSE LET t == limb(a, i) + limb(b, i) + carry
         IN  <<t % LimbBase>> \o big_add_from(a, b, i + 1, t \div LimbBase)

big_add(a, b) == big_add_from(a, b, 1, 0)

RECURSIVE big_sub_from(_, _, _, _)
big_sub_from(a, b, i, borrow) ==
    IF i > Len(a) THEN <<>>
    ELSE LET t == limb(a, i) - limb(b, i) - borrow
         IN  <<t % LimbBase>> \o big_sub_from(a, b, i + 1, IF t < 0 THEN 1 ELSE 0)

\* a - b, for a >= b
big_sub(a, b) == big_trim(big_sub_from(a, b, 1, 0))

RECURSIVE big_cmp_from(_, _, _)
big_cmp_from(a, b, i) ==
    IF i = 0 THEN 0
    ELSE IF limb(a, i) < limb(b, i) THEN -1
    ELSE IF limb(a, i) > limb(b, i) THEN 1
    ELSE big_cmp_from(a, b, i - 1)

\* -1, 0 or 1 as a is less than, equal to or greater than b
big_cmp(a, b) == big_cmp_from(a, b, Max(Len(a), Len(b)))

RECURSIVE big_mul_small_from(_, _, _, _)
big_mul_small_from(a, k, i, carry) ==
    IF i > Len(a) THEN (IF carry = 0 THEN <<>> ELSE <<carry>>)
    ELSE LET t == a[i] * k + carry
         IN  <<t % LimbBase>> \o big_mul_small_from(a, k, i + 1, t \div LimbBase)

\* a * k, for k < LimbBase
big_mul_small(a, k) == big_trim(big_mul_small_from(a, k, 1, 0))

\* a * LimbBase ^ limbs
big_shift_limbs(a, limbs) == IF a = <<>> THEN <<>> ELSE [i \in 1..limbs |-> 0] \o a

\* a * b: the products of a by the digits of b, summed digit after digit
big_mul(a, b) ==
    LET sum[s \in [i : Nat, total : Seq(Nat)]] ==
            IF s.i > Len(b) THEN s.total
            ELSE sum[[ i |-> s.i + 1,
                       total |-> big_add(s.total,
                                         big_shift_limbs(big_mul_small(a, b[s.i]),
                                                         s.i - 1)) ]]
    IN  sum[[i |-> 1, total |-> <<>>]]

\* a * 2 ^ bits
big_shl(a, bits) == big_shift_limbs(big_mul_small(a, 2 ^ (bits % 14)), bits \div 14)

\* floor(a / 2 ^ bits)
big_shr(a, bits) ==
    LET limbs == bits \div 14
        low == 2 ^ (bits % 14)
    IN  big_trim([i \in 1..Max(Len(a) - limbs, 0) |->
                     (a[i + limbs] \div low)
                         + (limb(a, i + limbs + 1) % low) * (LimbBase \div low)])

\* The bits of a digit
bit_len(n) == CHOOSE k \in 0..14 : n < 2 ^ k /\ (k = 0 \/ n >= 2 ^ (k - 1))

big_bit_len(a) == IF a = <<>> THEN 0 ELSE 14 * (Len(a) - 1) + bit_len(a[Len(a)])

\* bit i of a, bit 0 the least significant
big_bit(a, i) == (limb(a, i \div 14 + 1) \div 2 ^ (i % 14)) % 2

\* a mod 2 ^ bits is not 0
big_low_bits(a, bits) ==
    \E i \in 1..Len(a) : a[i] % 2 ^ Max(0, Min(14, bits - 14 * (i - 1))) # 0

\* The greatest digit k with d * k <= r, for r < d * LimbBase and a d whose
\* top digit is LimbBase / 2 at least: the quotient of the top two digits
\* of r by the top digit of d is k, k + 1 or k + 2 (Knuth, The Art of
\* Computer Programming, 4.3.1, Theorem B).
big_digit(r, d) ==
    LET top == limb(r, Len(d) + 1) * LimbBase + limb(r, Len(d))
        estimate == Min(top \div d[Len(d)], LimbBase - 1)
    IN  IF big_cmp(big_mul_small(d, estimate), r) <= 0 THEN estimate
        ELSE IF big_cmp(big_mul_small(d, estimate - 1), r) <= 0 THEN estimate - 1
        ELSE estimate - 2

\* For d > 0, the digits q of floor(n / d), with leading zeros, and whether
\* n mod d is 0 (r is empty): the long division of n and d times the power of
\* two that brings the top digit of d to LimbBase / 2 or more, from the
\* digits of n that d cannot divide down to digit 1
big_divmod(n, d) ==
    LET shift == 14 - bit_len(d[Len(d)])
        divisor == big_shl(d, shift)
        dividend == big_shl(n, shift)
        first == Min(Len(divisor) - 1, Len(dividend))
        digits[s \in [i : Nat, r : Seq(Nat), q : Seq(Nat)]] ==
            IF s.i = 0 THEN s
            ELSE LET shifted == big_trim(<<dividend[s.i]>> \o s.r)
                     digit == big_digit(shifted, divisor)
                 IN  digits[[ i |-> s.i - 1,
                              r |-> big_sub(shifted, big_mul_small(divisor, digit)),
                              q |-> <<digit>> \o s.q ]]
    IN  digits[[ i |-> Len(dividend) - first,
                 r |-> SubSeq(dividend, Len(dividend) - first + 1, Len(dividend)),
                 q |-> <<>> ]]

\* The bits of the significand of an f64: 52 stored and the leading one.
F64_MANTISSA_DIGITS == 52 + 1

\* An f64 that is finite: (-1)^neg * m * 2^e with m of F64_MANTISSA_DIGITS
\* bits at most (or m = 2^F64_MANTISSA_DIGITS).  The quotes stay far from
\* the subnormal numbers, from the infinities and from NaN: fee_rate is a
\* u16, so that f < 0.07 and the denominator is 0.6 at least.
F64(neg, m, e) == [neg |-> neg, m |-> m, e |-> e]

\* IEEE 754 round to nearest, ties to even, of (-1)^neg * (m + s) * 2^e,
\* where 0 < s < 1 when sticky and s = 0 when not; m has two bits more than
\* the significand when sticky.
f64_round(neg, m, e, sticky) ==
    LET shift == big_bit_len(m) - F64_MANTISSA_DIGITS
        kept == big_shr(m, shift)
        up == /\ big_bit(m, shift - 1) = 1
              /\ sticky \/ big_low_bits(m, shift - 1) \/ big_bit(kept, 0) = 1
    IN  IF shift <= 0 THEN F64(neg /\ m # <<>>, m, IF m = <<>> THEN 0 ELSE e)
        ELSE F64(neg, IF up THEN big_add(kept, <<1>>) ELSE kept, e + shift)

\* `n as f64`, for an integer of 31 bits at most
f64_of(n) == F64(n < 0, big_of(IF n < 0 THEN -n ELSE n), 0)

f64_neg(x) == F64(~x.neg /\ x.m # <<>>, x.m, x.e)

\* x + y
f64_add(x, y) ==
    LET e == Min(x.e, y.e)
        mx == big_shl(x.m, x.e - e)
        my == big_shl(y.m, y.e - e)
        order == big_cmp(mx, my)
    IN  IF x.m = <<>> THEN y
        ELSE IF y.m = <<>> THEN x
        ELSE IF x.neg = y.neg THEN f64_round(x.neg, big_add(mx, my), e, FALSE)
        ELSE IF order = 0 THEN F64(FALSE, <<>>, 0)
        ELSE IF order > 0 THEN f64_round(x.neg, big_sub(mx, my), e, FALSE)
        ELSE f64_round(y.neg, big_sub(my, mx), e, FALSE)

\* x - y
f64_sub(x, y) == f64_add(x, f64_neg(y))

\* x * y
f64_mul(x, y) ==
    IF x.m = <<>> \/ y.m = <<>> THEN F64(FALSE, <<>>, 0)
    ELSE f64_round(x.neg # y.neg, big_mul(x.m, y.m), x.e + y.e, FALSE)

\* x / y, for y # 0
f64_div(x, y) ==
    Let(Max(0, F64_MANTISSA_DIGITS + 2 + big_bit_len(y.m) - big_bit_len(x.m)),
        LAMBDA scale :
    IF x.m = <<>> THEN F64(FALSE, <<>>, 0)
    ELSE Let(big_divmod(big_shl(x.m, scale), y.m), LAMBDA division :
         f64_round(x.neg # y.neg, big_trim(division.q), x.e - y.e - scale,
                   division.r # <<>>)))

\* x < 0.0
f64_negative(x) == x.neg /\ x.m # <<>>

\* x > n, for an integer n >= 0
f64_greater(x, n) ==
    /\ ~x.neg
    /\ IF x.e >= 0 THEN big_cmp(big_shl(x.m, x.e), big_of(n)) > 0
       ELSE big_cmp(x.m, big_shl(big_of(n), -x.e)) > 0

\* `x as u64`: towards zero, saturating
f64_to_u64(x) ==
    IF x.neg THEN 0
    ELSE IF f64_greater(x, U64_MAX) THEN U64_MAX
    ELSE IF x.e >= 0 THEN big_to_int(big_shl(x.m, x.e))
    ELSE big_to_int(big_shr(x.m, -x.e))

\* limit_order.rs 59-65: f, p, r and denominator, in f64
denominator(fusion_pool) ==
    Let(f64_div(f64_of(fusion_pool.fee_rate), f64_of(FEE_RATE_DENOMINATOR)), LAMBDA f :
    Let(f64_div(f64_of(fusion_pool.order_protocol_fee_rate),
                f64_of(PROTOCOL_FEE_RATE_MUL_VALUE)), LAMBDA p :
    Let(f64_div(f64_of(fusion_pool.clp_reward_rate), f64_of(MAX_CLP_REWARD_RATE)),
        LAMBDA r :
    f64_add(f64_of(1),
            f64_mul(f64_mul(f64_div(f, f64_sub(f64_of(1), f)), f64_sub(f64_of(1), r)),
                    f64_sub(f64_of(1), p))))))

\* limit_order.rs 66: amount_out as f64 / denominator
amount_out_with_fees(amount_out, fusion_pool) ==
    Let(denominator(fusion_pool), LAMBDA denominator_of_pool :
    f64_div(f64_of(amount_out), denominator_of_pool))

\* limit_order.rs 51-76
limit_order_quote_by_output_token(amount_out, a_to_b_order, tick_index, fusion_pool) ==
    LET sqrt_price == tick_index_to_sqrt_price(tick_index)
    IN  Let(amount_out_with_fees(amount_out, fusion_pool), LAMBDA with_fees :
        IF f64_negative(with_fees) \/ f64_greater(with_fees, U64_MAX)
        THEN Err("AMOUNT_EXCEEDS_MAX_U64")
        ELSE get_limit_order_output_amount(f64_to_u64(with_fees), ~a_to_b_order,
                                           sqrt_price, TRUE))

\* ------------------------------------------------------------------------
\* The calls that are explored
\* ------------------------------------------------------------------------

\* FusionPoolFacade: the fields the swap reads.  tick_current_index is the
\* tick of sqrt_price, as in test_fusion_pool.
FusionPoolFacade(sqrt_price, liquidity, fee_rate, tick_spacing) ==
    [ tick_spacing |-> tick_spacing,
      fee_rate |-> fee_rate,
      liquidity |-> liquidity,
      sqrt_price |-> sqrt_price,
      tick_current_index |-> sqrt_price_to_tick_index(sqrt_price) ]

\* The ticks of the arrays of a call:
\*   "liq"    test_tick_array: every tick initialized, liquidity only
\*   "orders" test_tick_array_with_orders: every tick initialized, orders only
\*   "mixed"  every second tick initialized, liquidity and open orders
\*   "huge"   counters at the top of their types
\*   "full"   open orders that, with their fee, are more than a u64 holds
tick_of(kind, start_tick_index, tick_index, tick_spacing) ==
    CASE kind = "liq" ->
             TickFacade(TRUE, IF start_tick_index < 0 THEN 40 ELSE -40, 0, 0, 0)
      [] kind = "orders" -> TickFacade(TRUE, 0, 0, 30, 30)
      [] kind = "mixed" ->
             TickFacade(tick_index % (2 * tick_spacing) = 0,
                        IF tick_index < 0 THEN 70 ELSE -70, 25, 0, 0)
      [] kind = "huge" -> TickFacade(TRUE, I128_MAX, U64_MAX - 1, 2, 2)
      [] kind = "full" -> TickFacade(TRUE, 0, U64_MAX - 2, 0, 0)

tick_array(kind, start_tick_index, tick_spacing) ==
    [ start_tick_index |-> start_tick_index,
      ticks |-> [i \in 1..TICK_ARRAY_SIZE |->
                    tick_of(kind, start_tick_index,
                            start_tick_index + (i - 1) * tick_spacing, tick_spacing)] ]

\* The arrays whose starts are the given multiples of the array span, in the
\* order given (the caller need not sort them).
tick_arrays_of(kind, starts, tick_spacing) ==
    [i \in 1..Len(starts) |->
        tick_array(kind, starts[i] * TICK_ARRAY_SIZE * tick_spacing, tick_spacing)]

ContiguousStarts == { <<0, 1, -1>>, <<-1, 0>>, <<-2, -1, 0, 1>> }

UnevenStarts == { <<0, 2>> }

SwapCall(fn, token_amount, sqrt_price_limit, a_to_b, specified_input, slippage_tolerance_bps, fusion_pool, tick_arrays, transfer_fee_a, transfer_fee_b) ==
    [ fn |-> fn,
      token_amount |-> token_amount,
      sqrt_price_limit |-> sqrt_price_limit,
      a_to_b |-> a_to_b,
      specified_input |-> specified_input,
      slippage_tolerance_bps |-> slippage_tolerance_bps,
      fusion_pool |-> fusion_pool,
      tick_arrays |-> tick_arrays,
      transfer_fee_a |-> transfer_fee_a,
      transfer_fee_b |-> transfer_fee_b ]

\* compute_swap called directly with every kind of sqrt_price_limit, from a
\* price on a tick (64) and from one between two ticks (61).
LimitCalls ==
    { SwapCall("compute_swap", amount, limit, a_to_b, specified_input, 0,
               FusionPoolFacade(sqrt_price, 100, 3000, 2),
               tick_arrays_of("liq", <<0, 1, -1>>, 2), NoTransferFee, NoTransferFee) :
        amount \in {0, 9},
        limit \in {0, MIN_SQRT_PRICE - 1, MIN_SQRT_PRICE, 58, 61, 64, 69, MAX_SQRT_PRICE,
                   MAX_SQRT_PRICE + 1},
        a_to_b \in BOOLEAN, specified_input \in BOOLEAN,
        sqrt_price \in {61, 64} }

\* compute_swap called directly over pools and tick arrays of every kind,
\* without a limit or with one a tick or two away.  The pool is inside the
\* tick arrays or, at the sqrt price 41 and for some of them, below the first.
TraversalCalls ==
    { SwapCall("compute_swap", amount, limit, a_to_b, specified_input, 0,
               FusionPoolFacade(sqrt_price, liquidity, fee_rate, layout[2]),
               tick_arrays_of(kind, layout[1], layout[2]), NoTransferFee, NoTransferFee) :
        amount \in {1, 9, 60, 400, U64_MAX},
        limit \in {0, 53, 76},
        a_to_b \in BOOLEAN, specified_input \in BOOLEAN,
        sqrt_price \in {41, 61, 64}, liquidity \in {0, 100, 3000}, fee_rate \in {0, 3000},
        kind \in {"liq", "orders", "mixed", "huge"},
        layout \in { <<<<0, 1, -1>>, 1>>, <<<<-1, 0>>, 2>>, <<<<-2, -1, 0, 1>>, 2>> } }

\* compute_swap called directly over ticks whose open orders are close to
\* the top of u64.
FullTickCalls ==
    { SwapCall("compute_swap", amount, 0, a_to_b, specified_input, 0,
               FusionPoolFacade(sqrt_price, liquidity, 3000, 2),
               tick_arrays_of("full", <<-1, 0>>, 2), NoTransferFee, NoTransferFee) :
        amount \in {1, 60, U64_MAX},
        a_to_b \in BOOLEAN, specified_input \in BOOLEAN,
        sqrt_price \in {61, 64}, liquidity \in {0, 100} }

InvalidTransferFee == [fee_bps |-> BPS_DENOMINATOR + 1, max_fee |-> 0]

TransferFeePairs ==
    { <<NoTransferFee, NoTransferFee>>,
      <<[fee_bps |-> 100, max_fee |-> 1], [fee_bps |-> 500, max_fee |-> U64_MAX]>>,
      <<[fee_bps |-> 500, max_fee |-> U64_MAX], [fee_bps |-> 100, max_fee |-> 1]>>,
      <<InvalidTransferFee, NoTransferFee>> }

\* The two quotes: a_to_b holds specified_token_a; the limit is always 0.
QuoteCalls ==
    { SwapCall(fn, amount, 0, specified_token_a, fn = "swap_quote_by_input_token",
               slippage_tolerance_bps,
               FusionPoolFacade(64, liquidity, 3000, 2),
               tick_arrays_of(kind, starts, 2), transfer_fees[1], transfer_fees[2]) :
        fn \in {"swap_quote_by_input_token", "swap_quote_by_output_token"},
        amount \in {0, 9, 60, 400},
        specified_token_a \in BOOLEAN,
        slippage_tolerance_bps \in {0, 1000, 10000, 10001},
        liquidity \in {0, 3000},
        kind \in {"liq", "orders"}, starts \in ContiguousStarts \cup UnevenStarts,
        transfer_fees \in TransferFeePairs }

SwapCalls == LimitCalls \cup TraversalCalls \cup FullTickCalls \cup QuoteCalls

\* ------------------------------------------------------------------------
\* State
\* ------------------------------------------------------------------------

VARIABLES
    call,                \* the arguments of the call
    pc,                  \* "call", "loop" (at the head of the while loop), "done"
    token_amount,        \* compute_swap's token_amount
    tick_sequence,       \* the TickArraySequence of the call
    sqrt_price_limit,    \* the effective limit
    amount_remaining,
    amount_calculated,
    current_sqrt_price,
    current_tick_index,
    current_liquidity,
    fee_amount,
    consumed,            \* sum of what the steps and fills consumed so far
    iterations,          \* loop iterations completed
    step,                \* <<>> or the record of the last completed iteration
    result,              \* the Result returned to the caller
    current_price,           \* get_order_book_side: the price of the last entry
    next_order_book_price,   \* get_order_book_side: the price of the entry in hand
    order_book_entries,      \* get_order_book_side: the entries so far
    concentrated_total,
    concentrated_total_quote,
    limit_total,
    limit_total_quote,
    statics,             \* config.rs: FUNDER, NATIVE_MINT_WRAPPING_STRATEGY, SLIPPAGE_TOLERANCE_BPS
    threads,             \* the threads that call into config.rs
    now,                 \* poll_transaction_confirmation: seconds since `start`
    status,              \* poll_transaction_confirmation: the last response
    requested_at         \* poll_transaction_confirmation: when each request was made

vars == << call, pc, token_amount, tick_sequence, sqrt_price_limit, amount_remaining,
           amount_calculated, current_sqrt_price, current_tick_index, current_liquidity,
           fee_amount, consumed, iterations, step, result, current_price,
           next_order_book_price, order_book_entries, concentrated_total,
           concentrated_total_quote, limit_total, limit_total_quote, statics, threads,
           now, status, requested_at >>

\* The locals of get_order_book_side that no other function has.
book == << current_price, next_order_book_price, order_book_entries, concentrated_total,
           concentrated_total_quote, limit_total, limit_total_quote >>

\* get_order_book_side has not been called.
NoBook ==
    /\ current_price = PriceRatio(0, 1)
    /\ next_order_book_price = 0
    /\ order_book_entries = <<>>
    /\ concentrated_total = 0
    /\ concentrated_total_quote = 0
    /\ limit_total = 0
    /\ limit_total_quote = 0

\* config.rs 15, 27, 57: the default funder (the all-zero key), slippage
\* tolerance and SOL wrapping strategy
DEFAULT_FUNDER == 0

DEFAULT_SLIPPAGE_TOLERANCE_BPS == 100

DEFAULT_NATIVE_MINT_WRAPPING_STRATEGY == "Keypair"

\* A Mutex and the value it guards
Mutex(value, locked) == [value |-> value, locked |-> locked]

\* config.rs 18, 30, 60: the statics as the program starts
InitialStatics ==
    [ FUNDER |-> Mutex(DEFAULT_FUNDER, FALSE),
      NATIVE_MINT_WRAPPING_STRATEGY |-> Mutex(DEFAULT_NATIVE_MINT_WRAPPING_STRATEGY, FALSE),
      SLIPPAGE_TOLERANCE_BPS |-> Mutex(DEFAULT_SLIPPAGE_TOLERANCE_BPS, FALSE) ]

\* The state of the SDK around the core: the global configuration, the
\* threads that use it, and the polling of a transaction.
sdk == << statics, threads, now, status, requested_at >>

\* Nothing of the SDK around the core is in use.
NoSdk ==
    /\ statics = InitialStatics
    /\ threads = <<>>
    /\ now = 0
    /\ status = "none"
    /\ requested_at = <<>>

locals == << amount_remaining, amount_calculated, current_sqrt_price, current_tick_index,
             current_liquidity, fee_amount, consumed, iterations, step >>

\* a_to_b and specified_input as compute_swap gets them (swap.rs 55, 110)
A_to_b ==
    IF call.fn = "swap_quote_by_output_token" THEN ~call.a_to_b ELSE call.a_to_b

Specified_input == call.fn # "swap_quote_by_output_token" /\ call.specified_input

\* swap.rs 46-51, 101-106: the amount the quote hands to compute_swap
entry_amount ==
    CASE call.fn = "compute_swap" -> Ok(call.token_amount)
      [] call.fn = "swap_quote_by_input_token" ->
             try_apply_transfer_fee(call.token_amount,
                                    IF call.a_to_b THEN call.transfer_fee_a
                                    ELSE call.transfer_fee_b)
      [] call.fn = "swap_quote_by_output_token" ->
             try_reverse_apply_transfer_fee(call.token_amount,
                                            IF call.a_to_b THEN call.transfer_fee_a
                                            ELSE call.transfer_fee_b)

NoSequence == [tick_arrays |-> <<>>, tick_spacing |-> 0]

Init ==
    /\ call \in SwapCalls
    /\ pc = "call"
    /\ token_amount = 0
    /\ tick_sequence = NoSequence
    /\ sqrt_price_limit = 0
    /\ amount_remaining = 0
    /\ amount_calculated = 0
    /\ current_sqrt_price = 0
    /\ current_tick_index = 0
    /\ current_liquidity = 0
    /\ fee_amount = 0
    /\ consumed = 0
    /\ iterations = 0
    /\ step = <<>>
    /\ result = Err("PENDING")
    /\ NoBook
    /\ NoSdk

Fail(e) ==
    /\ pc' = "done"
    /\ result' = Err(e)

\* The call up to the head of the loop: the transfer fee of the quote,
\* TickArraySequence::new, and compute_swap's checks and initial locals
\* (swap.rs 51-55, 106-110, 168-195).
Call ==
    /\ pc = "call"
    /\ LET amount == entry_amount
           seq == TickArraySequence_new(call.tick_arrays, call.fusion_pool.tick_spacing)
           begin == compute_swap_begin(amount.v, call.sqrt_price_limit, call.fusion_pool,
                                       A_to_b)
       IN  IF ~amount.ok
           THEN Fail(amount.err)
                /\ UNCHANGED <<token_amount, tick_sequence, sqrt_price_limit, locals>>
           ELSE IF ~seq.ok
           THEN Fail(seq.err)
                /\ UNCHANGED <<token_amount, tick_sequence, sqrt_price_limit, locals>>
           ELSE IF ~begin.ok
           THEN Fail(begin.err)
                /\ token_amount' = amount.v
                /\ tick_sequence' = seq.v
                /\ UNCHANGED <<sqrt_price_limit, locals>>
           ELSE /\ pc' = "loop"
                /\ token_amount' = amount.v
                /\ tick_sequence' = seq.v
                /\ sqrt_price_limit' = begin.v
                /\ amount_remaining' = amount.v
                /\ amount_calculated' = 0
                /\ current_sqrt_price' = call.fusion_pool.sqrt_price
                /\ current_tick_index' = call.fusion_pool.tick_current_index
                /\ current_liquidity' = call.fusion_pool.liquidity
                /\ fee_amount' = 0
                /\ UNCHANGED <<consumed, iterations, step, result>>
    /\ UNCHANGED <<sdk, call, book>>

\* The traversal has left the supplied tick arrays in the direction of the
\* swap: the next prev_initialized_tick / next_initialized_tick has no tick
\* array to look into.
RanOffTheEnd ==
    /\ tick_sequence # NoSequence
    /\ IF A_to_b THEN current_tick_index < start_index(tick_sequence)
       ELSE current_tick_index >= end_index(tick_sequence)

\* The loop condition as it would be if the loop also ended where the pool
\* has no liquidity left.
LoopCondition_while_liquid ==
    amount_remaining > 0 /\ sqrt_price_limit # current_sqrt_price /\ current_liquidity > 0

\* The loop condition as it would be if the loop also ended where the
\* traversal leaves the tick arrays.
LoopCondition_within_arrays ==
    amount_remaining > 0 /\ sqrt_price_limit # current_sqrt_price /\ ~RanOffTheEnd

\* swap.rs 197: the condition of the while loop
LoopCondition == amount_remaining > 0 /\ sqrt_price_limit # current_sqrt_price

Locals ==
    [ amount_remaining |-> amount_remaining,
      amount_calculated |-> amount_calculated,
      current_sqrt_price |-> current_sqrt_price,
      current_tick_index |-> current_tick_index,
      current_liquidity |-> current_liquidity,
      fee_amount |-> fee_amount ]

\* One iteration of the while loop (swap.rs 197-271), in a build with or
\* without overflow checks.
Iterate ==
    /\ pc = "loop"
    /\ LoopCondition
    /\ \E overflow_checks \in BOOLEAN :
         \E it \in { swap_iteration(Locals, tick_sequence, call.fusion_pool.fee_rate,
                                    sqrt_price_limit, A_to_b, Specified_input,
                                    overflow_checks) } :
             IF ~it.ok
             THEN Fail(it.err) /\ UNCHANGED locals
             ELSE /\ amount_remaining' = it.v.loc.amount_remaining
                  /\ amount_calculated' = it.v.loc.amount_calculated
                  /\ current_sqrt_price' = it.v.loc.current_sqrt_price
                  /\ current_tick_index' = it.v.loc.current_tick_index
                  /\ current_liquidity' = it.v.loc.current_liquidity
                  /\ fee_amount' = it.v.loc.fee_amount
                  /\ consumed' = consumed
                                   + consumed_by(it.v.info.step_quote, Specified_input)
                                   + consumed_by(it.v.limit_swap_computation, Specified_input)
                  /\ iterations' = iterations + 1
                  /\ step' = <<it.v>>
                  /\ UNCHANGED <<pc, result>>
    /\ UNCHANGED <<sdk, call, token_amount, tick_sequence, sqrt_price_limit, book>>

\* The loop has ended: compute_swap returns its SwapResult and a quote
\* finishes with its transfer fees and slippage bound (swap.rs 273-283,
\* 57-75, 112-130).
Return ==
    /\ pc = "loop"
    /\ ~LoopCondition
    /\ LET swap_result == SwapResult(token_amount, amount_remaining, amount_calculated,
                                     fee_amount, current_sqrt_price, A_to_b,
                                     Specified_input)
       IN  result' =
               CASE call.fn = "compute_swap" -> Ok(swap_result)
                 [] call.fn = "swap_quote_by_input_token" ->
                        exact_in_swap_quote(swap_result, call.a_to_b,
                                            call.slippage_tolerance_bps,
                                            call.transfer_fee_a, call.transfer_fee_b)
                 [] call.fn = "swap_quote_by_output_token" ->
                        exact_out_swap_quote(swap_result, call.a_to_b,
                                             call.slippage_tolerance_bps,
                                             call.transfer_fee_a, call.transfer_fee_b)
    /\ pc' = "done"
    /\ UNCHANGED <<sdk, call, token_amount, tick_sequence, sqrt_price_limit, locals, book>>

Next == Call \/ Iterate \/ Return

Spec == Init /\ [][Next]_vars

\* compute_swap runs on: a step that can be taken is taken.
SpecTermination == Spec /\ WF_vars(Next)

\* ------------------------------------------------------------------------
\* decrease_limit_order_quote as a state machine of its own: a call and its
\* result.  The variables of the swap loop stay as Init leaves them.
\* ------------------------------------------------------------------------

\* TickFacade: the fields decrease_limit_order_quote reads
\* (types/tick.rs 36, 38, 39)
OrderTickFacade(age, part_filled_orders_input, part_filled_orders_remaining_input) ==
    [ age |-> age,
      part_filled_orders_input |-> part_filled_orders_input,
      part_filled_orders_remaining_input |-> part_filled_orders_remaining_input ]

\* FusionPoolFacade: the fields decrease_limit_order_quote reads
\* (types/pool.rs 31-34)
OrderPoolFacade(orders_filled_amount_a, orders_filled_amount_b, olp_fee_owed_a, olp_fee_owed_b) ==
    [ orders_filled_amount_a |-> orders_filled_amount_a,
      orders_filled_amount_b |-> orders_filled_amount_b,
      olp_fee_owed_a |-> olp_fee_owed_a,
      olp_fee_owed_b |-> olp_fee_owed_b ]

\* Orders of every age against ticks of every age, with the part-filled
\* counters of a tick empty, half remaining, untouched and inconsistent
\* (more remaining than put in); pools without filled orders, with a reward
\* that is a fraction of the filled amount, and with a reward that added to
\* the output does not fit a u64.
LimitOrderCalls ==
    { [ fn |-> "decrease_limit_order_quote",
        fusion_pool |-> OrderPoolFacade(filled[1], filled[2], filled[3], filled[4]),
        limit_order |-> LimitOrderFacade(tick_index, order_amount, a_to_b, age),
        tick |-> OrderTickFacade(tick_age, part[1], part[2]),
        amount |-> amount,
        transfer_fee_a |-> transfer_fees[1],
        transfer_fee_b |-> transfer_fees[2] ] :
        filled \in { <<0, 0, 0, 0>>, <<100, 80, 70, 50>>, <<25, 25, 1000, 1000>> },
        tick_index \in {-2, 2},
        order_amount \in {9, 25},
        a_to_b \in BOOLEAN,
        age \in {0, 1, U64_MAX},
        tick_age \in {0, 1, 2, 3},
        part \in { <<0, 0>>, <<20, 10>>, <<20, 20>>, <<10, 20>> },
        amount \in {0, 9, 25, 26},
        transfer_fees \in TransferFeePairs }

InitLimitOrder ==
    /\ call \in LimitOrderCalls
    /\ pc = "call"
    /\ token_amount = 0
    /\ tick_sequence = NoSequence
    /\ sqrt_price_limit = 0
    /\ amount_remaining = 0
    /\ amount_calculated = 0
    /\ current_sqrt_price = 0
    /\ current_tick_index = 0
    /\ current_liquidity = 0
    /\ fee_amount = 0
    /\ consumed = 0
    /\ iterations = 0
    /\ step = <<>>
    /\ result = Err("PENDING")
    /\ NoBook
    /\ NoSdk

\* decrease_limit_order_quote (limit_order.rs 79-154), in a build with or
\* without overflow checks.
DecreaseLimitOrderQuote ==
    /\ pc = "call"
    /\ call.fn = "decrease_limit_order_quote"
    /\ \E overflow_checks \in BOOLEAN :
         result' = decrease_limit_order_quote(call.fusion_pool, call.limit_order, call.tick,
                                              call.amount, call.transfer_fee_a,
                                              call.transfer_fee_b, overflow_checks)
    /\ pc' = "done"
    /\ UNCHANGED <<sdk, call, token_amount, tick_sequence, sqrt_price_limit, locals, book>>

NextLimitOrder == DecreaseLimitOrderQuote

SpecLimitOrder == InitLimitOrder /\ [][NextLimitOrder]_vars

\* ------------------------------------------------------------------------
\* get_order_book_side as a state machine: pc is "call", "book" (at the head
\* of the outer loop), "ticks" (at the head of the inner loop) or "done".
\* ------------------------------------------------------------------------

\* Sides of the order books of pools on a tick and between two ticks, over
\* tick arrays of every kind, with steps of both signs that an array covers
\* and that it does not cover, a step of 0, and every limit on the entries.
OrderBookCalls ==
    { [ fn |-> "get_order_book_side",
        fusion_pool |-> FusionPoolFacade(sqrt_price, liquidity, 0, layout[2]),
        tick_sequence |-> TickArraySequence_new(tick_arrays_of(kind, layout[1], layout[2]),
                                                layout[2]).v,
        price_step |-> price_step,
        max_num_entries |-> max_num_entries,
        invert_price |-> invert_price,
        decimals_a |-> decimals[1],
        decimals_b |-> decimals[2] ] :
        sqrt_price \in {61, 64}, liquidity \in {0, 100, 3000},
        kind \in {"liq", "orders", "mixed", "huge"},
        layout \in { <<<<0, 1, -1>>, 1>>, <<<<-1, 0>>, 2>>, <<<<-2, -1, 0, 1>>, 2>> },
        price_step \in {0, 700, -700, -98, 3000, -3000},
        max_num_entries \in {0, 2, 3, MAX_NUM_ENTRIES + 1},
        invert_price \in BOOLEAN,
        decimals \in { <<6, 6>>, <<7, 6>> } }

InitOrderBook ==
    /\ call \in OrderBookCalls
    /\ pc = "call"
    /\ token_amount = 0
    /\ tick_sequence = NoSequence
    /\ sqrt_price_limit = 0
    /\ amount_remaining = 0
    /\ amount_calculated = 0
    /\ current_sqrt_price = 0
    /\ current_tick_index = 0
    /\ current_liquidity = 0
    /\ fee_amount = 0
    /\ consumed = 0
    /\ iterations = 0
    /\ step = <<>>
    /\ result = Err("PENDING")
    /\ NoBook
    /\ NoSdk

unused_by_order_book ==
    << token_amount, sqrt_price_limit, amount_remaining, amount_calculated, fee_amount,
       consumed, step >>

Book_a_to_b == order_book_a_to_b(call.price_step, call.invert_price)

\* next_order_book_sqrt_price of the entry in hand (order_book.rs 91-100)
Next_order_book_sqrt_price ==
    order_book_sqrt_price(next_order_book_price, call.invert_price, call.decimals_a,
                          call.decimals_b)

\* order_book.rs 53-81: the assertions and the initial locals
GetOrderBookSide ==
    /\ pc = "call"
    /\ call.fn = "get_order_book_side"
    /\ IF \/ unsigned_abs(call.price_step) < MIN_PRICE_STEP
          \/ call.max_num_entries > MAX_NUM_ENTRIES
       THEN /\ Fail(PANIC)
            /\ UNCHANGED <<tick_sequence, current_sqrt_price, current_tick_index,
                           current_liquidity, book>>
       ELSE /\ pc' = "book"
            /\ tick_sequence' = call.tick_sequence
            /\ current_price' = order_book_current_price(call.fusion_pool,
                                     call.invert_price, call.decimals_a, call.decimals_b)
            /\ next_order_book_price' =
                   order_book_first_price(current_price', call.price_step)
            /\ current_sqrt_price' = call.fusion_pool.sqrt_price
            /\ current_tick_index' = call.fusion_pool.tick_current_index
            /\ current_liquidity' = call.fusion_pool.liquidity
            /\ concentrated_total' = 0
            /\ concentrated_total_quote' = 0
            /\ limit_total' = 0
            /\ limit_total_quote' = 0
            /\ order_book_entries' = <<>>
            /\ UNCHANGED result
    /\ UNCHANGED <<sdk, call, iterations, unused_by_order_book>>

\* order_book.rs 83-113: the head of the outer loop returns the entries at
\* the end of the prices or of the entries asked for, and else opens the
\* next entry.
NextOrderBookEntry ==
    /\ pc = "book"
    /\ IF \/ price_ratio_is(current_price, order_book_min_price)
          \/ price_ratio_is(current_price, order_book_max_price)
          \/ Len(order_book_entries) >= call.max_num_entries
       THEN /\ result' = Ok(order_book_entries)
            /\ pc' = "done"
            /\ UNCHANGED <<next_order_book_price, order_book_entries>>
       ELSE /\ next_order_book_price' =
                   clamp(next_order_book_price + call.price_step,
                         order_book_min_price, order_book_max_price)
            /\ order_book_entries' =
                   Append(order_book_entries,
                          OrderBookEntry(concentrated_total, concentrated_total_quote,
                                         limit_total, limit_total_quote,
                                         next_order_book_price', ~Book_a_to_b))
            /\ pc' = "ticks"
            /\ UNCHANGED result
    /\ UNCHANGED <<sdk, call, tick_sequence, current_sqrt_price, current_tick_index,
                   current_liquidity, current_price, concentrated_total,
                   concentrated_total_quote, limit_total, limit_total_quote, iterations,
                   unused_by_order_book>>

BookLocals ==
    [ current_sqrt_price |-> current_sqrt_price,
      current_tick_index |-> current_tick_index,
      current_liquidity |-> current_liquidity,
      concentrated_total |-> concentrated_total,
      concentrated_total_quote |-> concentrated_total_quote,
      limit_total |-> limit_total,
      limit_total_quote |-> limit_total_quote,
      book_entry |-> order_book_entries[Len(order_book_entries)] ]

\* order_book.rs 117-178: one iteration of the inner loop, in a build with
\* or without overflow checks.
OrderBookTick ==
    /\ pc = "ticks"
    /\ current_sqrt_price # Next_order_book_sqrt_price
    /\ \E overflow_checks \in BOOLEAN :
       \E next \in { order_book_next_tick(tick_sequence, current_tick_index, Book_a_to_b) } :
         IF ~next.ok
         THEN /\ result' = order_book_scan_failed(order_book_entries, next)
              /\ pc' = "done"
              /\ UNCHANGED <<current_sqrt_price, current_tick_index, current_liquidity,
                             order_book_entries, concentrated_total,
                             concentrated_total_quote, limit_total, limit_total_quote,
                             iterations>>
         ELSE
         \E it \in { order_book_tick(BookLocals, next.v, Next_order_book_sqrt_price,
                                     Book_a_to_b, overflow_checks) } :
           IF ~it.ok
           THEN /\ Fail(it.err)
                /\ UNCHANGED <<current_sqrt_price, current_tick_index, current_liquidity,
                               order_book_entries, concentrated_total,
                               concentrated_total_quote, limit_total, limit_total_quote,
                               iterations>>
           ELSE /\ current_sqrt_price' = it.v.current_sqrt_price
                /\ current_tick_index' = it.v.current_tick_index
                /\ current_liquidity' = it.v.current_liquidity
                /\ concentrated_total' = it.v.concentrated_total
                /\ concentrated_total_quote' = it.v.concentrated_total_quote
                /\ limit_total' = it.v.limit_total
                /\ limit_total_quote' = it.v.limit_total_quote
                /\ order_book_entries' =
                       [order_book_entries EXCEPT ![Len(order_book_entries)] =
                                                      it.v.book_entry]
                /\ iterations' = iterations + 1
                /\ UNCHANGED <<pc, result>>
    /\ UNCHANGED <<sdk, call, tick_sequence, current_price, next_order_book_price,
                   unused_by_order_book>>

\* order_book.rs 117, 181: the inner loop ends at the price of the entry
CloseOrderBookEntry ==
    /\ pc = "ticks"
    /\ current_sqrt_price = Next_order_book_sqrt_price
    /\ current_price' = PriceRatio(next_order_book_price, 1)
    /\ pc' = "book"
    /\ UNCHANGED <<sdk, call, tick_sequence, current_sqrt_price, current_tick_index,
                   current_liquidity, next_order_book_price, order_book_entries,
                   concentrated_total, concentrated_total_quote, limit_total,
                   limit_total_quote, iterations, result, unused_by_order_book>>

NextOrderBook ==
    GetOrderBookSide \/ NextOrderBookEntry \/ OrderBookTick \/ CloseOrderBookEntry

SpecOrderBook == InitOrderBook /\ [][NextOrderBook]_vars

\* ------------------------------------------------------------------------
\* position_status and position_ratio_x64: a call and its return
\* ------------------------------------------------------------------------

\* The locals of the loops of the other functions: unused by a function
\* that returns at once.
NoLoop ==
    /\ token_amount = 0
    /\ tick_sequence = NoSequence
    /\ sqrt_price_limit = 0
    /\ amount_remaining = 0
    /\ amount_calculated = 0
    /\ current_sqrt_price = 0
    /\ current_tick_index = 0
    /\ current_liquidity = 0
    /\ fee_amount = 0
    /\ consumed = 0
    /\ iterations = 0
    /\ step = <<>>
    /\ NoBook

\* Every sqrt price from below MIN_SQRT_PRICE to above MAX_SQRT_PRICE
\* against every pair of tick indexes.
PositionCalls ==
    { [ fn |-> fn, current_sqrt_price |-> sqrt_price, tick_index_1 |-> tick_index_1,
        tick_index_2 |-> tick_index_2 ] :
        fn \in {"position_status", "position_ratio_x64"},
        sqrt_price \in (MIN_SQRT_PRICE - 2)..(MAX_SQRT_PRICE + 2),
        tick_index_1 \in MIN_TICK_INDEX..MAX_TICK_INDEX,
        tick_index_2 \in MIN_TICK_INDEX..MAX_TICK_INDEX }

InitPosition ==
    /\ call \in PositionCalls
    /\ pc = "call"
    /\ result = Err("PENDING")
    /\ NoLoop
    /\ NoSdk

\* position.rs 47-62
PositionStatus ==
    /\ pc = "call"
    /\ call.fn = "position_status"
    /\ result' = Ok(position_status(call.current_sqrt_price, call.tick_index_1,
                                    call.tick_index_2))
    /\ pc' = "done"
    /\ UNCHANGED <<sdk, call, token_amount, tick_sequence, sqrt_price_limit, locals, book>>

\* position.rs 74-111, in a build with or without overflow checks
PositionRatioX64 ==
    /\ pc = "call"
    /\ call.fn = "position_ratio_x64"
    /\ \E overflow_checks \in BOOLEAN :
         result' = position_ratio_x64(call.current_sqrt_price, call.tick_index_1,
                                      call.tick_index_2, overflow_checks)
    /\ pc' = "done"
    /\ UNCHANGED <<sdk, call, token_amount, tick_sequence, sqrt_price_limit, locals, book>>

NextPosition == PositionStatus \/ PositionRatioX64

SpecPosition == InitPosition /\ [][NextPosition]_vars

\* ------------------------------------------------------------------------
\* U256Muldiv::div, called once
\* ------------------------------------------------------------------------

\* The words the operands are made of: every word when a word has two bits.
WordSamples == {0, 1, WordBase \div 2, WordBase - 1}

U256Samples == [ 0..(NUM_WORDS - 1) -> WordSamples ]

U256Calls ==
    { [ fn |-> "div", dividend |-> dividend, divisor |-> divisor,
        return_remainder |-> return_remainder ] :
        dividend \in U256Samples, divisor \in U256Samples,
        return_remainder \in BOOLEAN }

InitU256 ==
    /\ call \in U256Calls
    /\ pc = "call"
    /\ result = Err("PENDING")
    /\ NoLoop
    /\ NoSdk

\* u256_math.rs 311-391, in a build with or without overflow checks
Div ==
    /\ pc = "call"
    /\ call.fn = "div"
    /\ \E overflow_checks \in BOOLEAN :
         result' = div(call.dividend, call.divisor, call.return_remainder,
                       overflow_checks)
    /\ pc' = "done"
    /\ UNCHANGED <<sdk, call, token_amount, tick_sequence, sqrt_price_limit, locals, book>>

NextU256 == Div

SpecU256 == InitU256 /\ [][NextU256]_vars

\* ------------------------------------------------------------------------
\* The limit order quotes, each called once
\* ------------------------------------------------------------------------

LimitOrderQuoteCalls ==
    { [ fn |-> fn, amount |-> amount, a_to_b_order |-> a_to_b_order,
        tick_index |-> tick_index,
        fusion_pool |-> QuotePoolFacade(fee_rate, clp_reward_rate,
                                        order_protocol_fee_rate) ] :
        fn \in {"limit_order_quote_by_input_token", "limit_order_quote_by_output_token"},
        amount \in {0, 1, 100, 250, 500, U64_MAX},
        a_to_b_order \in BOOLEAN,
        tick_index \in {-4, 0, 4, MAX_TICK_INDEX},
        fee_rate \in {0, 10000, 60000},
        clp_reward_rate \in {0, 2500, 5000, MAX_CLP_REWARD_RATE, MAX_CLP_REWARD_RATE + 1},
        order_protocol_fee_rate \in {0, 5000, PROTOCOL_FEE_RATE_MUL_VALUE} }

InitLimitOrderQuote ==
    /\ call \in LimitOrderQuoteCalls
    /\ pc = "call"
    /\ result = Err("PENDING")
    /\ NoLoop
    /\ NoSdk

\* limit_order.rs 25-42, in a build with or without overflow checks
LimitOrderQuoteByInputToken ==
    /\ pc = "call"
    /\ call.fn = "limit_order_quote_by_input_token"
    /\ \E overflow_checks \in BOOLEAN :
         result' = limit_order_quote_by_input_token(call.amount, call.a_to_b_order,
                                                    call.tick_index, call.fusion_pool,
                                                    overflow_checks)
    /\ pc' = "done"
    /\ UNCHANGED <<sdk, call, token_amount, tick_sequence, sqrt_price_limit, locals, book>>

\* limit_order.rs 51-76
LimitOrderQuoteByOutputToken ==
    /\ pc = "call"
    /\ call.fn = "limit_order_quote_by_output_token"
    /\ result' = limit_order_quote_by_output_token(call.amount, call.a_to_b_order,
                                                   call.tick_index, call.fusion_pool)
    /\ pc' = "done"
    /\ UNCHANGED <<sdk, call, token_amount, tick_sequence, sqrt_price_limit, locals, book>>

NextLimitOrderQuote == LimitOrderQuoteByInputToken \/ LimitOrderQuoteByOutputToken

SpecLimitOrderQuote == InitLimitOrderQuote /\ [][NextLimitOrderQuote]_vars


\* ------------------------------------------------------------------------
\* The global configuration (config.rs), used by several threads
\* ------------------------------------------------------------------------

Threads == {1, 2}

\* The calls a thread makes, one after another
MaxCalls == 2

\* `*M.try_lock()? = value;`
Assign(mutex, value) ==
    [op |-> "store", mutex |-> mutex, value |-> value, request |-> "none", returns |-> {}]

\* `let funder = funder.unwrap_or(*M.try_lock()?);`: unwrap_or takes its
\* argument evaluated, so that the mutex is locked and read whether a funder
\* is given or not.
Load(mutex) ==
    [op |-> "load", mutex |-> mutex, value |-> 0, request |-> "none", returns |-> {}]

\* `if funder == Pubkey::default() { return Err(...) }`, and the results the
\* code from there to the next request may return.
Check(returns) ==
    [op |-> "check", mutex |-> "none", value |-> 0, request |-> "none", returns |-> returns]

\* `request.await`: the function waits for the response.  returns are the
\* results the function may return once it has the response, from the `?`
\* on the response to the next request: they depend on what the RPC node
\* answers.
Await(request, returns) ==
    [op |-> "await", mutex |-> "none", value |-> 0, request |-> request, returns |-> returns]

\* The error of an RPC request
ClientError == Err("ClientError")

\* The error of FusionPool::from_bytes, LimitOrder::from_bytes and
\* TickArray::from_bytes
IoError == Err("io::Error")

\* ProgramError::InvalidSeeds of get_limit_order_address and
\* get_tick_array_address (client/src/pda/tick_array.rs 15-19)
ProgramError == Err("ProgramError")

\* A CoreError of try_reverse_apply_transfer_fee or of
\* decrease_limit_order_quote
CoreError == Err("CoreError")

\* The error of prepare_token_accounts_instructions
TokenAccountsError == Err("prepare_token_accounts_instructions")

\* config.rs 21-24
set_funder(funder) == << Assign("FUNDER", funder) >>

\* config.rs 33-36
set_slippage_tolerance_bps(tolerance) == << Assign("SLIPPAGE_TOLERANCE_BPS", tolerance) >>

\* config.rs 63-66
set_native_mint_wrapping_strategy(strategy) ==
    << Assign("NATIVE_MINT_WRAPPING_STRATEGY", strategy) >>

\* config.rs 69-74
reset_configuration ==
    << Assign("FUNDER", DEFAULT_FUNDER),
       Assign("NATIVE_MINT_WRAPPING_STRATEGY", DEFAULT_NATIVE_MINT_WRAPPING_STRATEGY),
       Assign("SLIPPAGE_TOLERANCE_BPS", DEFAULT_SLIPPAGE_TOLERANCE_BPS) >>

\* fusionamm-sdk/src/limit_order.rs 141-204: the read of FUNDER, the waits
\* and the returns of open_limit_order_instructions before its last part.
\* The mints are taken by index from the accounts of the response and
\* unpacked with expect (153-160).
\* The response to the last get_account is not tried: the function goes on
\* whether the tick array exists or not.
open_limit_order_instructions ==
    << Load("FUNDER"),
       Await("get_rent", {ClientError}),
       Check({}),
       Await("get_account", {ClientError, IoError}),
       Await("get_multiple_accounts",
             {ClientError, Err("Token A mint info not found"),
              Err("Wrong token A mint account length"), Err(PANIC),
              Err("Token B mint info not found"),
              Err("Wrong token B mint account length")}),
       Await("get_epoch_info", {ClientError, CoreError, ProgramError}),
       Await("prepare_token_accounts_instructions", {TokenAccountsError}),
       Await("get_account", {Err("Token owner account not found")}) >>

\* fusionamm-sdk/src/limit_order.rs 300-345: the mints are taken by index
\* from the accounts of the response (315-316).
increase_limit_order_instructions ==
    << Load("FUNDER"),
       Check({ProgramError}),
       Await("get_account", {ClientError, IoError}),
       Await("get_account", {ClientError, IoError}),
       Await("get_multiple_accounts",
             {ClientError, Err(PANIC), Err("Token A mint info not found"),
              Err("Token B mint info not found"), ProgramError}),
       Await("get_epoch_info", {ClientError, CoreError}),
       Await("prepare_token_accounts_instructions",
             {TokenAccountsError, Err("Token owner account not found")}) >>

\* fusionamm-sdk/src/limit_order.rs 513-580: the mints are taken by index
\* from the accounts of the response (528-529) and the tick of the order
\* from the tick array (538), decrease_limit_order_quote subtracts and adds
\* without a check (549-556), and the token accounts are unwrapped (579-580).
internal_decrease_and_close_limit_order_instructions ==
    << Load("FUNDER"),
       Check({ProgramError}),
       Await("get_account", {ClientError, IoError}),
       Await("get_account", {ClientError, IoError}),
       Await("get_multiple_accounts",
             {ClientError, Err(PANIC), Err("Token A mint info not found"),
              Err("Token B mint info not found"), ProgramError}),
       Await("get_account", {ClientError, IoError, Err(PANIC)}),
       Await("get_epoch_info", {ClientError, CoreError, Err(PANIC)}),
       Await("prepare_token_accounts_instructions", {TokenAccountsError, Err(PANIC)}) >>

\* fusionamm-sdk/src/limit_order.rs 133, 294, 507: the functions that read
\* FUNDER.  close_limit_order_instructions and
\* decrease_limit_order_instructions are calls of
\* internal_decrease_and_close_limit_order_instructions.
LimitOrderInstructions ==
    { "open_limit_order_instructions", "increase_limit_order_instructions",
      "internal_decrease_and_close_limit_order_instructions" }

\* The calls into config.rs: the setters with the values of the tests of
\* config.rs, and reset_configuration; and the calls of the functions that
\* read FUNDER, without a funder (0, None) and with one.
ConfigCalls ==
    { [fn |-> "set_funder", statements |-> set_funder(1), funder |-> 0],
      [fn |-> "set_slippage_tolerance_bps",
       statements |-> set_slippage_tolerance_bps(200), funder |-> 0],
      [fn |-> "set_native_mint_wrapping_strategy",
       statements |-> set_native_mint_wrapping_strategy("Ata"), funder |-> 0],
      [fn |-> "reset_configuration", statements |-> reset_configuration, funder |-> 0] }
    \cup { [fn |-> "open_limit_order_instructions",
             statements |-> open_limit_order_instructions, funder |-> funder] :
               funder \in {0, 2} }
    \cup { [fn |-> "increase_limit_order_instructions",
             statements |-> increase_limit_order_instructions, funder |-> funder] :
               funder \in {0, 2} }
    \cup { [fn |-> "internal_decrease_and_close_limit_order_instructions",
             statements |-> internal_decrease_and_close_limit_order_instructions,
             funder |-> funder] :
               funder \in {0, 2} }

\* A thread: the function it is in, the statements on the statics, the
\* checks and the waits still to run, its funder, the mutex whose guard it holds, the statics the call has
\* written, and what the call returned.
Thread(fn, statements, funder, guard, stored, returned, calls) ==
    [ fn |-> fn, statements |-> statements, funder |-> funder, guard |-> guard,
      stored |-> stored, returned |-> returned, calls |-> calls ]

Running(t) == threads[t].returned = Err("PENDING")

InitConfig ==
    /\ call = [fn |-> "config"]
    /\ pc = "threads"
    /\ result = Err("PENDING")
    /\ NoLoop
    /\ statics = InitialStatics
    /\ threads = [t \in Threads |-> Thread("none", <<>>, 0, "none", {}, Err("IDLE"), 0)]
    /\ now = 0
    /\ status = "none"
    /\ requested_at = <<>>

core == << call, pc, result, token_amount, tick_sequence, sqrt_price_limit, locals, book >>

\* A thread calls a function of config.rs, or one that reads FUNDER.
CallConfig(t) ==
    /\ ~Running(t)
    /\ threads[t].calls < MaxCalls
    /\ \E c \in ConfigCalls :
           threads' = [threads EXCEPT ![t] = Thread(c.fn, c.statements, c.funder, "none",
                                                    {}, Err("PENDING"), @.calls + 1)]
    /\ UNCHANGED <<core, statics, now, status, requested_at>>

\* `M.try_lock()?`: the guard, or the return of the error when the mutex is
\* locked elsewhere.
TryLock(t) ==
    /\ Running(t)
    /\ threads[t].guard = "none"
    /\ threads[t].statements # <<>>
    /\ Head(threads[t].statements).op \in {"store", "load"}
    /\ LET mutex == Head(threads[t].statements).mutex
       IN  IF statics[mutex].locked
           THEN /\ threads' = [threads EXCEPT ![t].returned = Err("WouldBlock")]
                /\ UNCHANGED statics
           ELSE /\ statics' = [statics EXCEPT ![mutex].locked = TRUE]
                /\ threads' = [threads EXCEPT ![t].guard = mutex]
    /\ UNCHANGED <<core, now, status, requested_at>>

\* `*guard = value;`: the store, and the drop of the guard at the end of the
\* statement.
Store(t) ==
    /\ Running(t)
    /\ threads[t].guard # "none"
    /\ Head(threads[t].statements).op = "store"
    /\ LET mutex == threads[t].guard
           value == Head(threads[t].statements).value
       IN  /\ statics' = [statics EXCEPT ![mutex] = Mutex(value, FALSE)]
           /\ threads' = [threads EXCEPT ![t].guard = "none",
                                         ![t].statements = Tail(@),
                                         ![t].stored = @ \cup {mutex}]
    /\ UNCHANGED <<core, now, status, requested_at>>

\* limit_order.rs 141, 300, 513: `funder.unwrap_or(*guard)`, the funder
\* given or else the static, and the drop of the guard at the end of the
\* statement.
LoadFunder(t) ==
    /\ Running(t)
    /\ threads[t].guard # "none"
    /\ Head(threads[t].statements).op = "load"
    /\ LET mutex == threads[t].guard
       IN  /\ statics' = [statics EXCEPT ![mutex].locked = FALSE]
           /\ threads' = [threads EXCEPT
                             ![t].guard = "none",
                             ![t].statements = Tail(@),
                             ![t].funder = IF @ = 0 THEN statics[mutex].value ELSE @]
    /\ UNCHANGED <<core, now, status, requested_at>>

\* `Ok(())`
ReturnOk(t) ==
    /\ Running(t)
    /\ threads[t].guard = "none"
    /\ threads[t].statements = <<>>
    /\ threads[t].fn \notin LimitOrderInstructions
    /\ threads' = [threads EXCEPT ![t].returned = Ok("()")]
    /\ UNCHANGED <<core, statics, now, status, requested_at>>

\* limit_order.rs 143-145, 301-307, 514-519: without a funder the function
\* returns an error; with one it goes on to its next request, unless an
\* address cannot be derived.
CheckFunder(t) ==
    /\ Running(t)
    /\ threads[t].statements # <<>>
    /\ Head(threads[t].statements).op = "check"
    /\ IF threads[t].funder = DEFAULT_FUNDER
       THEN threads' = [threads EXCEPT ![t].returned = Err("Funder must be provided"),
                                       ![t].statements = <<>>]
       ELSE \/ threads' = [threads EXCEPT ![t].statements = Tail(@)]
            \/ \E returned \in Head(threads[t].statements).returns :
                   threads' = [threads EXCEPT ![t].returned = returned,
                                              ![t].statements = <<>>]
    /\ UNCHANGED <<core, statics, now, status, requested_at>>

\* limit_order.rs 142, 147-204, 308-338, 521-566: the response to the
\* request the function waits for arrives.  The function returns the error
\* of the request or one of what it finds in the response, or goes on to
\* its next request.  The other threads run while it waits.
AwaitResponse(t) ==
    /\ Running(t)
    /\ threads[t].statements # <<>>
    /\ Head(threads[t].statements).op = "await"
    /\ \/ threads' = [threads EXCEPT ![t].statements = Tail(@)]
       \/ \E returned \in Head(threads[t].statements).returns :
              threads' = [threads EXCEPT ![t].returned = returned,
                                         ![t].statements = <<>>]
    /\ UNCHANGED <<core, statics, now, status, requested_at>>

\* limit_order.rs 206-270, 347-378, 582-614: after its last request the
\* function builds its instructions and returns them.  It does not come
\* back to the statics.
Instructions(t) ==
    /\ Running(t)
    /\ threads[t].guard = "none"
    /\ threads[t].statements = <<>>
    /\ threads[t].fn \in LimitOrderInstructions
    /\ threads' = [threads EXCEPT ![t].returned = Ok("instructions")]
    /\ UNCHANGED <<core, statics, now, status, requested_at>>

NextConfig ==
    \E t \in Threads :
        \/ CallConfig(t)
        \/ TryLock(t)
        \/ Store(t)
        \/ LoadFunder(t)
        \/ ReturnOk(t)
        \/ CheckFunder(t)
        \/ AwaitResponse(t)
        \/ Instructions(t)

SpecConfig == InitConfig /\ [][NextConfig]_vars

\* ------------------------------------------------------------------------
\* poll_transaction_confirmation (smart_transaction.rs)
\* ------------------------------------------------------------------------

\* smart_transaction.rs 300: the retry interval, in seconds
interval == 2

\* The requests of a call that are followed
MaxRequests == 4

\* The seconds a request, and a sleep beyond its duration, may take
Latencies == {0, 1}

\* The responses of get_signature_statuses: no status, a status without
\* error that is Processed, Confirmed or Finalized, a status with an error,
\* a list without an entry, and the failure of the request.
Responses == {"None", "Processed", "Confirmed", "Finalized", "Failed", "Empty", "RpcError"}

PollCalls == { [fn |-> "poll_transaction_confirmation", timeout |-> timeout] :
                  timeout \in {0, 1, 3, 6} }

InitPoll ==
    /\ call \in PollCalls
    /\ pc = "loop"
    /\ result = Err("PENDING")
    /\ NoLoop
    /\ statics = InitialStatics
    /\ threads = <<>>
    /\ now = 0
    /\ status = "none"
    /\ requested_at = <<>>

unused_by_poll == << call, token_amount, tick_sequence, sqrt_price_limit, locals, book, statics, threads >>

\* smart_transaction.rs 303-304: the timeout has not elapsed, and the
\* statuses are requested.
GetSignatureStatuses ==
    /\ pc = "loop"
    /\ now < call.timeout
    /\ Len(requested_at) < MaxRequests
    /\ requested_at' = Append(requested_at, now)
    /\ pc' = "await"
    /\ UNCHANGED <<unused_by_poll, now, status, result>>

\* smart_transaction.rs 304: `.await`, a second passes without the response
AwaitStatuses ==
    /\ pc = "await"
    /\ now + 1 - requested_at[Len(requested_at)] \in Latencies
    /\ now' = now + 1
    /\ UNCHANGED <<unused_by_poll, pc, status, requested_at, result>>

\* smart_transaction.rs 304: the response arrives, and `?` returns the
\* failure of the request.
StatusesReceived ==
    /\ pc = "await"
    /\ \E response \in Responses :
           /\ status' = response
           /\ IF response = "RpcError"
              THEN pc' = "done" /\ result' = Err("RpcError")
              ELSE pc' = "match" /\ UNCHANGED result
    /\ UNCHANGED <<unused_by_poll, now, requested_at>>

\* smart_transaction.rs 306-325: the match on the first entry of the
\* response; status.value[0] panics when the list has no entry.
Match ==
    /\ pc = "match"
    /\ CASE status = "Empty" ->
                pc' = "done" /\ result' = Err(PANIC) /\ UNCHANGED now
         [] status \in {"Confirmed", "Finalized"} ->
                pc' = "done" /\ result' = Ok("tx_sig") /\ UNCHANGED now
         [] status = "Failed" ->
                pc' = "done" /\ result' = Err("TransactionError") /\ UNCHANGED now
         [] status = "None" ->
                pc' = "sleep" /\ UNCHANGED <<now, result>>
         [] status = "Processed" ->
                pc' = "loop" /\ UNCHANGED <<now, result>>
    /\ UNCHANGED <<unused_by_poll, status, requested_at>>

\* smart_transaction.rs 322: sleep(interval).await returns once the
\* interval has passed, or later
Sleep ==
    /\ pc = "sleep"
    /\ \E late \in Latencies : now' = now + interval + late
    /\ pc' = "loop"
    /\ UNCHANGED <<unused_by_poll, status, result, requested_at>>

\* smart_transaction.rs 303, 328-331: the timeout has elapsed
TimedOut ==
    /\ pc = "loop"
    /\ now >= call.timeout
    /\ pc' = "done"
    /\ result' = Err("Unable to confirm transaction")
    /\ UNCHANGED <<unused_by_poll, now, status, requested_at>>

NextPoll ==
    GetSignatureStatuses \/ AwaitStatuses \/ StatusesReceived \/ Match \/ Sleep \/ TimedOut

SpecPoll == InitPoll /\ [][NextPoll]_vars

\* The token an order is made in comes back in amount_out_a for an a_to_b
\* order and in amount_out_b otherwise; the other field holds its output.
input_token_out(limit_order, quote) ==
    IF limit_order.a_to_b THEN quote.amount_out_a ELSE quote.amount_out_b

output_token_out(limit_order, quote) ==
    IF limit_order.a_to_b THEN quote.amount_out_b ELSE quote.amount_out_a

\* C10: decreasing an order that is not yet filled (its age is the age of
\* its tick) by an amount within the order never fails for want of
\* synchronisation or arithmetic, pays no reward in either token and nothing
\* in the output token, and returns the amount in the input token: exactly
\* the amount where that token has no transfer fee.
C10_NotFilledReturnsInput ==
    (/\ pc = "done" /\ call.fn = "decrease_limit_order_quote"
     /\ call.limit_order.age = call.tick.age
     /\ call.amount <= call.limit_order.amount) =>
        /\ ~result.ok => result = Err("INVALID_TRANSFER_FEE")
        /\ (/\ call.transfer_fee_a.fee_bps <= BPS_DENOMINATOR
            /\ call.transfer_fee_b.fee_bps <= BPS_DENOMINATOR) => result.ok
        /\ result.ok =>
              /\ result.v.reward_a = 0 /\ result.v.reward_b = 0
              /\ output_token_out(call.limit_order, result.v) = 0
              /\ input_token_out(call.limit_order, result.v) <= call.amount
              /\ (call.transfer_fee_a = NoTransferFee /\ call.transfer_fee_b = NoTransferFee)
                    => input_token_out(call.limit_order, result.v) = call.amount

\* An order of its tick's age, on a tick whose part-filled counters are in
\* use, has been decreased by its whole amount without transfer fees.
C10_Witness ==
    /\ pc = "done" /\ call.fn = "decrease_limit_order_quote"
    /\ call.limit_order.age = call.tick.age /\ call.tick.age > 0
    /\ call.amount = call.limit_order.amount /\ call.amount > 0
    /\ call.tick.part_filled_orders_input > 0
    /\ call.transfer_fee_a = NoTransferFee /\ call.transfer_fee_b = NoTransferFee
    /\ result.ok /\ input_token_out(call.limit_order, result.v) = call.amount

\* ------------------------------------------------------------------------
\* Properties of decrease_limit_order_quote: the filled states
\* ------------------------------------------------------------------------

DecreaseDone == pc = "done" /\ call.fn = "decrease_limit_order_quote"

NoTransferFees ==
    call.transfer_fee_a = NoTransferFee /\ call.transfer_fee_b = NoTransferFee

\* x of the input token of the order of the call at the price of its tick,
\* rounded down.
converted_down(x) ==
    LET sqrt_price == tick_index_to_sqrt_price(call.limit_order.tick_index)
    IN  IF call.limit_order.a_to_b
        THEN (x * sqrt_price * sqrt_price) \div Q128
        ELSE (x * Q128) \div (sqrt_price * sqrt_price)

\* The fee owed in the output token of the order of the call, and the
\* filled amount of the pool in its input token.
olp_fee_owed_out ==
    IF call.limit_order.a_to_b THEN call.fusion_pool.olp_fee_owed_b
    ELSE call.fusion_pool.olp_fee_owed_a

orders_filled_amount_in ==
    IF call.limit_order.a_to_b THEN call.fusion_pool.orders_filled_amount_a
    ELSE call.fusion_pool.orders_filled_amount_b

\* The share of filled in the fee owed, rounded down (0 of nothing filled).
pro_rata_reward(filled) ==
    IF filled = 0 THEN 0 ELSE (olp_fee_owed_out * filled) \div orders_filled_amount_in

reward_in_output_token(quote) ==
    IF call.limit_order.a_to_b THEN quote.reward_b ELSE quote.reward_a

reward_in_input_token(quote) ==
    IF call.limit_order.a_to_b THEN quote.reward_a ELSE quote.reward_b

\* The pool has filled orders to share the fee among, and the output with
\* the reward of a filled part is an amount a u64 holds.
PayoutRepresentable(filled) ==
    /\ filled > 0 => orders_filled_amount_in > 0
    /\ converted_down(filled) + pro_rata_reward(filled) <= U64_MAX

FulfilledCall ==
    /\ DecreaseDone
    /\ call.tick.age >= call.limit_order.age + 2
    /\ call.amount <= call.limit_order.amount

\* C11: decreasing a fulfilled order (the age of its tick is at least the
\* age of the order plus 2) by an amount within the order returns nothing in
\* the input token of the order and, in its output token, the whole amount
\* at the price of the tick of the order rounded down plus the pro-rata
\* reward, before transfer fees; with transfer fees it returns no more.
\* The call succeeds whenever the transfer fees are valid and the pool has
\* filled orders to share the reward among (output and reward being amounts
\* whose sum a u64 holds).
C11_FulfilledReturnsOutput ==
    (FulfilledCall /\ PayoutRepresentable(call.amount)) =>
        /\ ~result.ok => result = Err("INVALID_TRANSFER_FEE")
        /\ (/\ call.transfer_fee_a.fee_bps <= BPS_DENOMINATOR
            /\ call.transfer_fee_b.fee_bps <= BPS_DENOMINATOR) => result.ok
        /\ result.ok =>
              /\ input_token_out(call.limit_order, result.v) = 0
              /\ reward_in_output_token(result.v) = pro_rata_reward(call.amount)
              /\ output_token_out(call.limit_order, result.v)
                    <= converted_down(call.amount) + pro_rata_reward(call.amount)
              /\ NoTransferFees =>
                    output_token_out(call.limit_order, result.v)
                      = converted_down(call.amount) + pro_rata_reward(call.amount)

\* A fulfilled order has been decreased by a part of its amount whose
\* output is not a whole number before rounding, with a reward.
C11_Witness ==
    /\ FulfilledCall /\ NoTransferFees /\ result.ok
    /\ 0 < call.amount /\ call.amount < call.limit_order.amount
    /\ call.tick.age > call.limit_order.age + 2
    /\ pro_rata_reward(call.amount) > 0
    /\ converted_down(call.amount) * Q128
          # call.amount * tick_index_to_sqrt_price(call.limit_order.tick_index) ^ 2
    /\ call.limit_order.a_to_b
    /\ output_token_out(call.limit_order, result.v)
          = converted_down(call.amount) + pro_rata_reward(call.amount)

\* The part-filled counters of the tick of the call are in use and hold the
\* invariant of a tick: no more remains than was put in.
PartFilledConsistent ==
    /\ call.tick.part_filled_orders_input > 0
    /\ call.tick.part_filled_orders_remaining_input <= call.tick.part_filled_orders_input

PartiallyFilledCall ==
    /\ DecreaseDone
    /\ call.tick.age = call.limit_order.age + 1
    /\ call.amount <= call.limit_order.amount
    /\ PartFilledConsistent

\* The part of the amount of the call that has not been filled yet.
remaining_input_of_call ==
    (call.amount * call.tick.part_filled_orders_remaining_input)
        \div call.tick.part_filled_orders_input

\* C12: decreasing a partially filled order (the age of its tick is the age
\* of the order plus 1, the part-filled counters of the tick being
\* consistent) by an amount within the order returns in the input token
\* remaining_input = floor(amount * part_filled_orders_remaining_input /
\* part_filled_orders_input), which is at most amount, and in the output
\* token the filled part amount - remaining_input at the price of the tick
\* rounded down plus the reward of the filled part, before transfer fees;
\* the input part and the filled part sum to amount.
C12_PartiallyFilledSplitsAmount ==
    (/\ PartiallyFilledCall
     /\ PayoutRepresentable(call.amount - remaining_input_of_call)) =>
        /\ remaining_input_of_call <= call.amount
        /\ ~result.ok => result = Err("INVALID_TRANSFER_FEE")
        /\ (/\ call.transfer_fee_a.fee_bps <= BPS_DENOMINATOR
            /\ call.transfer_fee_b.fee_bps <= BPS_DENOMINATOR) => result.ok
        /\ result.ok =>
              /\ input_token_out(call.limit_order, result.v) <= remaining_input_of_call
              /\ output_token_out(call.limit_order, result.v)
                    <= converted_down(call.amount - remaining_input_of_call)
                         + reward_in_output_token(result.v)
              /\ NoTransferFees =>
                    /\ input_token_out(call.limit_order, result.v)
                          = remaining_input_of_call
                    /\ output_token_out(call.limit_order, result.v)
                          = converted_down(call.amount - remaining_input_of_call)
                              + reward_in_output_token(result.v)
                    /\ \E filled \in 0..call.amount :
                          /\ input_token_out(call.limit_order, result.v) + filled
                                = call.amount
                          /\ output_token_out(call.limit_order, result.v)
                                = converted_down(filled)
                                    + reward_in_output_token(result.v)

\* A partially filled order has been decreased by an amount of which the
\* remaining part is not a whole number before rounding.
C12_Witness ==
    /\ PartiallyFilledCall /\ NoTransferFees /\ result.ok
    /\ call.amount > 0
    /\ call.tick.part_filled_orders_remaining_input < call.tick.part_filled_orders_input
    /\ remaining_input_of_call * call.tick.part_filled_orders_input
          # call.amount * call.tick.part_filled_orders_remaining_input
    /\ input_token_out(call.limit_order, result.v) = remaining_input_of_call
    /\ output_token_out(call.limit_order, result.v) > reward_in_output_token(result.v)

\* C13: decrease_limit_order_quote fails with
\* AMOUNT_EXCEEDS_LIMIT_ORDER_INPUT_AMOUNT whenever the amount asked for is
\* greater than the amount of the order, whatever the ages, the counters of
\* the tick and of the pool and the transfer fees are; an amount equal to
\* the amount of the order never fails with that error.
C13_AmountWithinOrder ==
    DecreaseDone =>
        /\ call.amount > call.limit_order.amount
              => result = Err("AMOUNT_EXCEEDS_LIMIT_ORDER_INPUT_AMOUNT")
        /\ call.amount <= call.limit_order.amount
              => (result.ok \/ result.err # "AMOUNT_EXCEEDS_LIMIT_ORDER_INPUT_AMOUNT")

\* An amount above the order has been refused where every later check
\* would have passed, and where later checks would have failed too.
C13_Witness ==
    /\ DecreaseDone
    /\ call.amount = call.limit_order.amount + 1
    /\ result = Err("AMOUNT_EXCEEDS_LIMIT_ORDER_INPUT_AMOUNT")
    /\ call.limit_order.age = call.tick.age
    /\ call.transfer_fee_a.fee_bps > BPS_DENOMINATOR

\* The part of the amount of the call that is filled by the ages of the
\* order and of its tick, the counters of the tick being consistent.
filled_amount_of_call ==
    IF call.tick.age = call.limit_order.age THEN 0
    ELSE IF call.tick.age = call.limit_order.age + 1
    THEN call.amount - remaining_input_of_call
    ELSE call.amount

\* The counters of the tick or of the pool do not agree with the ages of
\* the order and of its tick.
OutOfSync ==
    \/ call.limit_order.age > call.tick.age
    \/ /\ call.tick.age = call.limit_order.age + 1
       /\ \/ call.tick.part_filled_orders_input = 0
          \/ call.tick.part_filled_orders_remaining_input
                > call.tick.part_filled_orders_input
    \/ /\ call.tick.age > call.limit_order.age
       /\ call.tick.age = call.limit_order.age + 1 => PartFilledConsistent
       /\ filled_amount_of_call > 0
       /\ orders_filled_amount_in = 0

\* C14: decrease_limit_order_quote fails with
\* LIMIT_ORDER_AND_POOL_ARE_OUT_OF_SYNC whenever the counters are
\* inconsistent with the ages (the amount being within the order): an order
\* older than its tick, a tick one age ahead with part_filled_orders_input =
\* 0 or with more remaining than put in, or a filled part while the pool
\* has no filled amount; it never returns Ok, aborts or reports another
\* error for such a call.
C14_InconsistencyIsOutOfSync ==
    (DecreaseDone /\ call.amount <= call.limit_order.amount /\ OutOfSync)
        => result = Err("LIMIT_ORDER_AND_POOL_ARE_OUT_OF_SYNC")

\* C15: the reward of a quote of decrease_limit_order_quote is pro-rata and
\* in the output token of the order only: the reward in the input token is
\* 0, and for an order that is not filled, partially filled (with
\* consistent counters) or fulfilled, the reward in the output token is
\* floor(olp_fee_owed of the output token * filled_amount /
\* orders_filled_amount of the input token), where filled_amount is the
\* filled part of the amount; it is 0 when filled_amount is 0.
C15_RewardProRata ==
    (DecreaseDone /\ result.ok) =>
        /\ reward_in_input_token(result.v) = 0
        /\ (/\ call.tick.age >= call.limit_order.age
            /\ call.tick.age = call.limit_order.age + 1 => PartFilledConsistent) =>
              /\ filled_amount_of_call > 0 => orders_filled_amount_in > 0
              /\ reward_in_output_token(result.v)
                    = pro_rata_reward(filled_amount_of_call)
              /\ filled_amount_of_call = 0 => reward_in_output_token(result.v) = 0

\* A partially filled order has been decreased with a reward that is a
\* rounded share of the fee owed, the two filled amounts of the pool being
\* different.
C15_Witness ==
    /\ PartiallyFilledCall /\ result.ok
    /\ filled_amount_of_call > 0 /\ filled_amount_of_call < call.amount
    /\ call.fusion_pool.orders_filled_amount_a # call.fusion_pool.orders_filled_amount_b
    /\ reward_in_output_token(result.v) > 0
    /\ reward_in_output_token(result.v) * orders_filled_amount_in
          < olp_fee_owed_out * filled_amount_of_call

\* ------------------------------------------------------------------------
\* Properties of the limit order quotes
\* ------------------------------------------------------------------------

\* O: the input of the call at the price of the order's tick, rounded down
quote_output ==
    get_limit_order_output_amount(call.amount, call.a_to_b_order,
                                  tick_index_to_sqrt_price(call.tick_index), FALSE)

\* The swap fee on O
quote_swap_fee ==
    try_reverse_apply_swap_fee(quote_output.v, call.fusion_pool.fee_rate).v - quote_output.v

\* R = swap_fee * (1 - p) * (1 - r), each factor applied rounding the part
\* taken down
quote_reward ==
    LET after_protocol ==
            quote_swap_fee
                - (quote_swap_fee * call.fusion_pool.order_protocol_fee_rate)
                      \div PROTOCOL_FEE_RATE_MUL_VALUE
    IN  after_protocol
            - (after_protocol * call.fusion_pool.clp_reward_rate) \div MAX_CLP_REWARD_RATE

InputQuoteReturned ==
    /\ pc = "done" /\ call.fn = "limit_order_quote_by_input_token"
    /\ call.fusion_pool.clp_reward_rate <= MAX_CLP_REWARD_RATE
    /\ result.ok

\* C26: limit_order_quote_by_input_token returns O + R with
\* R = swap_fee * (1 - p) * (1 - r), to within one unit of rounding.
C26_InputQuoteAddsReward ==
    InputQuoteReturned =>
        unsigned_abs(result.v - (quote_output.v + quote_reward)) <= 1

\* ------------------------------------------------------------------------
\* Properties of get_order_book_side
\* ------------------------------------------------------------------------

\* get_order_book_side has ended in its inner loop, short of the price of
\* the entry in hand, where the scan for the next tick runs off the tick
\* arrays supplied.
ScanRanOff ==
    /\ pc = "done" /\ call.fn = "get_order_book_side"
    /\ Len(order_book_entries) > 0
    /\ current_sqrt_price # Next_order_book_sqrt_price
    /\ ~order_book_next_tick(tick_sequence, current_tick_index, Book_a_to_b).ok

\* C16: an error is terminal for the call that produced it and no
\* partial-success result is returned: when the scan for the next tick
\* inside get_order_book_side runs off the tick arrays supplied, the call
\* returns the error of the scan and not an Ok value holding the entries
\* gathered so far.
C16_NoPartialSuccess ==
    ScanRanOff =>
        result = order_book_next_tick(tick_sequence, current_tick_index, Book_a_to_b)

\* The call of get_order_book_side has returned entries.
OrderBookReturned ==
    /\ pc = "done" /\ call.fn = "get_order_book_side"
    /\ result.ok
    /\ Len(result.v) > 0

AllAskSide(entries, ask_side) == \A i \in 1..Len(entries) : entries[i].ask_side = ask_side

\* C21: without invert_price the entries are of the
\* BID side (ask_side false) for a positive price step and of the ASK side
\* (ask_side true) for a negative one.
C21_PositiveStepIsBidSide ==
    (OrderBookReturned /\ ~call.invert_price) =>
        AllAskSide(result.v, call.price_step < 0)

\* ------------------------------------------------------------------------
\* Properties of position_status and position_ratio_x64
\* ------------------------------------------------------------------------

\* The sqrt prices of the lower and of the upper tick of the call
lower_sqrt_price_of_call ==
    tick_index_to_sqrt_price(Min(call.tick_index_1, call.tick_index_2))

upper_sqrt_price_of_call ==
    tick_index_to_sqrt_price(Max(call.tick_index_1, call.tick_index_2))

\* The status of the position of the call by its definition
status_of_call ==
    IF call.tick_index_1 = call.tick_index_2 THEN "Invalid"
    ELSE IF call.current_sqrt_price <= lower_sqrt_price_of_call THEN "PriceBelowRange"
    ELSE IF call.current_sqrt_price >= upper_sqrt_price_of_call THEN "PriceAboveRange"
    ELSE "PriceInRange"

\* C17: position_status classifies with inclusive boundaries, whatever the
\* order of the two tick indexes: Invalid if they are equal; otherwise
\* PriceBelowRange if the sqrt price is at most that of the lower tick,
\* PriceAboveRange if it is at least that of the upper tick, and
\* PriceInRange only strictly between the two; exactly one status applies.
C17_PositionStatus ==
    (pc = "done" /\ call.fn = "position_status") =>
        /\ result.ok
        /\ result.v \in {"Invalid", "PriceBelowRange", "PriceAboveRange", "PriceInRange"}
        /\ result.v = "Invalid" <=> call.tick_index_1 = call.tick_index_2
        /\ result.v = "PriceBelowRange" <=>
              /\ call.tick_index_1 # call.tick_index_2
              /\ call.current_sqrt_price <= lower_sqrt_price_of_call
        /\ result.v = "PriceAboveRange" <=>
              /\ call.tick_index_1 # call.tick_index_2
              /\ call.current_sqrt_price >= upper_sqrt_price_of_call
        /\ result.v = "PriceInRange" <=>
              /\ call.tick_index_1 # call.tick_index_2
              /\ lower_sqrt_price_of_call < call.current_sqrt_price
              /\ call.current_sqrt_price < upper_sqrt_price_of_call
        /\ result.v = position_status(call.current_sqrt_price, call.tick_index_2,
                                      call.tick_index_1)

\* A position whose ticks are given upper first has been classified at the
\* sqrt price of its lower tick.
C17_Witness ==
    /\ pc = "done" /\ call.fn = "position_status"
    /\ call.tick_index_1 > call.tick_index_2
    /\ call.current_sqrt_price = lower_sqrt_price_of_call
    /\ result = Ok("PriceBelowRange")

\* C18: position_ratio_x64 returns ratio_a + ratio_b = 2^64 for every
\* position whose status is not Invalid (below the range (2^64, 0), above it
\* (0, 2^64), in range both parts at most 2^64) and (0, 0) exactly when the
\* status is Invalid; the computation in range never divides by zero or
\* underflows.
C18_PositionRatio ==
    (pc = "done" /\ call.fn = "position_ratio_x64") =>
        /\ result.ok
        /\ result.v.ratio_a \in 0..Q64 /\ result.v.ratio_b \in 0..Q64
        /\ status_of_call # "Invalid" => result.v.ratio_a + result.v.ratio_b = Q64
        /\ result.v = PositionRatio(0, 0) <=> status_of_call = "Invalid"
        /\ status_of_call = "PriceBelowRange" => result.v = PositionRatio(Q64, 0)
        /\ status_of_call = "PriceAboveRange" => result.v = PositionRatio(0, Q64)

\* The ratio of a position in range has been computed with both parts
\* above 0.
C18_Witness ==
    /\ pc = "done" /\ call.fn = "position_ratio_x64"
    /\ status_of_call = "PriceInRange"
    /\ result.ok /\ result.v.ratio_a > 0 /\ result.v.ratio_b > 0
    /\ result.v.ratio_a + result.v.ratio_b = Q64

\* ------------------------------------------------------------------------
\* Properties of U256Muldiv::div
\* ------------------------------------------------------------------------

DivDone == pc = "done" /\ call.fn = "div"

\* The long division is the path taken: a dividend of three words or more
\* and a divisor of two words or more, no wider than the dividend.
LongDivisionCall ==
    /\ num_words(call.dividend) >= 3
    /\ num_words(call.divisor) >= 2
    /\ num_words(call.dividend) >= num_words(call.divisor)

\* C19: div returns the floor of dividend / divisor and, when the remainder
\* is asked for, dividend - quotient * divisor (zero when it is not), for
\* every dividend and every divisor other than zero; a zero divisor aborts.
C19_DivIsExact ==
    DivDone =>
        IF u256_value(call.divisor) = 0
        THEN ~result.ok /\ result.err = PANIC
        ELSE /\ result.ok
             /\ u256_value(result.v.quotient)
                    = u256_value(call.dividend) \div u256_value(call.divisor)
             /\ u256_value(result.v.remainder)
                    = IF call.return_remainder
                      THEN u256_value(call.dividend) % u256_value(call.divisor)
                      ELSE 0

\* ------------------------------------------------------------------------
\* Properties of the loop of compute_swap
\* ------------------------------------------------------------------------

\* The ticks of the tick arrays of the call
TicksSupplied == Len(call.tick_arrays) * TICK_ARRAY_SIZE

\* The tick index or the price has moved in the direction of the swap.
Advanced ==
    IF A_to_b
    THEN current_tick_index' < current_tick_index \/ current_sqrt_price' < current_sqrt_price
    ELSE current_tick_index' > current_tick_index \/ current_sqrt_price' > current_sqrt_price

ReachedNextTick ==
    step[1].info.step_quote.next_sqrt_price = step[1].info.next_tick_sqrt_price

\* The limit orders of the next tick were filled from what the concentrated
\* step of the last iteration left.
FilledAfterStep ==
    \E overflow_checks \in BOOLEAN :
        LET filled == fill_limit_orders(step[1].info.next_tick,
                                        step[1].info.next_tick_sqrt_price, A_to_b,
                                        Specified_input,
                                        step[1].after_step.amount_remaining,
                                        call.fusion_pool.fee_rate, overflow_checks)
        IN  filled.ok /\ filled.v = step[1].limit_swap_computation

\* C23: in every iteration the limit orders of the next initialized tick are
\* filled and the tick is crossed exactly when the concentrated step ended
\* at the price of that tick; the fill is offered what remains after the
\* step; when the step stops short, nothing is filled and the liquidity and
\* the tick's side of the amounts are as the step left them.
C23_FillExactlyAtTick ==
    step # <<>> =>
        /\ step[1].crossed <=> ReachedNextTick
        /\ ReachedNextTick =>
               /\ FilledAfterStep
               /\ consumed_by(step[1].limit_swap_computation, Specified_input)
                      <= step[1].after_step.amount_remaining
               /\ current_tick_index = IF A_to_b THEN step[1].info.next_tick_index - 1
                                       ELSE step[1].info.next_tick_index
        /\ ~ReachedNextTick =>
               /\ step[1].limit_swap_computation = LimitSwapComputation(0, 0, 0)
               /\ current_liquidity = step[1].info.before.current_liquidity
               /\ amount_remaining = step[1].after_step.amount_remaining
               /\ amount_calculated = step[1].after_step.amount_calculated

\* An iteration moved the price to the next tick, consumed part of the
\* amount in the concentrated step and part of the rest in the limit orders.
C23_Witness ==
    /\ step # <<>>
    /\ step[1].crossed
    /\ consumed_by(step[1].info.step_quote, Specified_input) > 0
    /\ consumed_by(step[1].limit_swap_computation, Specified_input) > 0
    /\ amount_remaining > 0

\* The liquidity_net of the tick the last iteration went for, 0 for a
\* missing tick.
liquidity_net_of_step ==
    IF step[1].info.next_tick = <<>> THEN 0 ELSE step[1].info.next_tick[1].liquidity_net

\* The liquidity before the last iteration with the liquidity_net applied in
\* the direction of the swap.
liquidity_across ==
    step[1].info.before.current_liquidity
        + (IF A_to_b THEN -liquidity_net_of_step ELSE liquidity_net_of_step)

\* C24: crossing a tick from b to a adds its liquidity_net to the liquidity
\* and crossing it from a to b subtracts it, a missing tick counting 0 (in
\* u128 arithmetic: exactly when the sum is a u128, and modulo 2^128 in a
\* build that wraps); crossing the tick back in the other direction gives
\* the liquidity there was before.
C24_SignedLiquidityNet ==
    (step # <<>> /\ step[1].crossed) =>
        /\ liquidity_across \in 0..U128_MAX => current_liquidity = liquidity_across
        /\ (current_liquidity - liquidity_across) % (U128_MAX + 1) = 0
        /\ \E overflow_checks \in BOOLEAN :
               get_next_liquidity(current_liquidity, step[1].info.next_tick, ~A_to_b,
                                  overflow_checks)
                   = Ok(step[1].info.before.current_liquidity)

\* A tick with a positive liquidity_net was crossed from a to b and the
\* liquidity went down by it.
C24_Witness ==
    /\ step # <<>> /\ step[1].crossed
    /\ liquidity_net_of_step > 0
    /\ A_to_b
    /\ liquidity_across \in 0..U128_MAX
    /\ current_liquidity < step[1].info.before.current_liquidity

\* ------------------------------------------------------------------------
\* Properties of the rounding of compute_swap_step and fill_limit_orders
\* ------------------------------------------------------------------------

\* An amount of token A is no less (no more) than the exact amount of token
\* A between two sqrt prices at a liquidity: liquidity * Q64 * diff /
\* (lower * upper).
at_least_delta_a(amount, sqrt_price_1, sqrt_price_2, liquidity) ==
    amount * sqrt_price_1 * sqrt_price_2
        >= liquidity * unsigned_abs(sqrt_price_1 - sqrt_price_2) * Q64

at_most_delta_a(amount, sqrt_price_1, sqrt_price_2, liquidity) ==
    amount * sqrt_price_1 * sqrt_price_2
        <= liquidity * unsigned_abs(sqrt_price_1 - sqrt_price_2) * Q64

\* The same for token B: liquidity * diff / Q64.
at_least_delta_b(amount, sqrt_price_1, sqrt_price_2, liquidity) ==
    amount * Q64 >= liquidity * unsigned_abs(sqrt_price_1 - sqrt_price_2)

at_most_delta_b(amount, sqrt_price_1, sqrt_price_2, liquidity) ==
    amount * Q64 <= liquidity * unsigned_abs(sqrt_price_1 - sqrt_price_2)

\* The fee is no less than the fee rate's share of what is paid, fee included.
at_least_fee(q) ==
    q.fee_amount * FEE_RATE_MUL_VALUE
        >= (q.amount_in + q.fee_amount) * call.fusion_pool.fee_rate

\* The concentrated step of the last iteration: amount_in no less and
\* amount_out no more than the exact amounts between the two prices.
StepFavoursPool ==
    LET q         == step[1].info.step_quote
        from      == step[1].info.before.current_sqrt_price
        liquidity == step[1].info.before.current_liquidity
    IN  /\ IF A_to_b
           THEN /\ at_least_delta_a(q.amount_in, from, q.next_sqrt_price, liquidity)
                /\ at_most_delta_b(q.amount_out, from, q.next_sqrt_price, liquidity)
           ELSE /\ at_least_delta_b(q.amount_in, from, q.next_sqrt_price, liquidity)
                /\ at_most_delta_a(q.amount_out, from, q.next_sqrt_price, liquidity)
        /\ at_least_fee(q)

\* The fill of the last iteration: amount_in no less than amount_out at the
\* price of the tick (token B = token A * sqrt_price^2 / Q128).
FillFavoursPool ==
    LET q          == step[1].limit_swap_computation
        sqrt_price == step[1].info.next_tick_sqrt_price
    IN  /\ IF A_to_b
           THEN q.amount_in * sqrt_price * sqrt_price >= q.amount_out * Q128
           ELSE q.amount_in * Q128 >= q.amount_out * sqrt_price * sqrt_price
        /\ at_least_fee(q)

\* C25: the rounding favours the pool: in every concentrated step and every
\* fill of limit orders, in both directions and both modes, amount_in and
\* the fee are no less, and amount_out no more, than the exact amounts.
C25_RoundingFavoursPool ==
    step # <<>> => StepFavoursPool /\ FillFavoursPool

\* An iteration whose step and fill both traded, with amounts that are not
\* whole: the step's amount_in is above the exact amount.
C25_Witness ==
    /\ step # <<>>
    /\ step[1].info.step_quote.amount_out > 0
    /\ step[1].limit_swap_computation.amount_out > 0
    /\ step[1].info.step_quote.fee_amount > 0
    /\ ~IF A_to_b
        THEN at_most_delta_a(step[1].info.step_quote.amount_in,
                             step[1].info.before.current_sqrt_price,
                             step[1].info.step_quote.next_sqrt_price,
                             step[1].info.before.current_liquidity)
        ELSE at_most_delta_b(step[1].info.step_quote.amount_in,
                             step[1].info.before.current_sqrt_price,
                             step[1].info.step_quote.next_sqrt_price,
                             step[1].info.before.current_liquidity)

\* ------------------------------------------------------------------------
\* Properties of the price tracked by compute_swap
\* ------------------------------------------------------------------------

\* A price is no further in the direction of the swap than another.
NotPast(sqrt_price, bound) ==
    IF A_to_b THEN sqrt_price >= bound ELSE sqrt_price <= bound

\* C27: the tracked sqrt price moves only in the direction of the swap, in
\* every iteration it passes neither the effective limit nor the price of
\* the next initialized tick, and the next_sqrt_price that is returned lies
\* between the effective limit and the sqrt price the pool started from.
C27_PriceWithinLimit ==
    /\ step # <<>> =>
           /\ NotPast(step[1].info.before.current_sqrt_price, current_sqrt_price)
           /\ NotPast(step[1].info.step_quote.next_sqrt_price,
                      step[1].info.next_tick_sqrt_price)
           /\ NotPast(current_sqrt_price, step[1].info.next_tick_sqrt_price)
           /\ NotPast(current_sqrt_price, step[1].info.target_sqrt_price)
    /\ pc = "loop" =>
           /\ NotPast(current_sqrt_price, sqrt_price_limit)
           /\ NotPast(call.fusion_pool.sqrt_price, current_sqrt_price)
    /\ (pc = "done" /\ result.ok /\ call.fn = "compute_swap") =>
           /\ NotPast(result.v.next_sqrt_price, sqrt_price_limit)
           /\ NotPast(call.fusion_pool.sqrt_price, result.v.next_sqrt_price)

\* compute_swap has returned at a limit the caller gave, two iterations or
\* more away from the price of the pool, with part of the amount left.
C27_Witness ==
    /\ pc = "done" /\ result.ok /\ call.fn = "compute_swap"
    /\ call.sqrt_price_limit # 0
    /\ iterations >= 2
    /\ result.v.next_sqrt_price = sqrt_price_limit
    /\ result.v.next_sqrt_price # call.fusion_pool.sqrt_price
    /\ amount_remaining > 0

\* ------------------------------------------------------------------------
\* Properties of what the steps and the fills consume
\* ------------------------------------------------------------------------

\* swap.rs 198-202: the next initialized tick of the iteration about to run
next_tick_of_loop ==
    IF A_to_b THEN prev_initialized_tick(tick_sequence, current_tick_index)
    ELSE next_initialized_tick(tick_sequence, current_tick_index)

\* swap.rs 204-218: the concentrated step of the iteration about to run
step_of_loop(next, overflow_checks) ==
    compute_swap_step(amount_remaining, call.fusion_pool.fee_rate, current_liquidity,
                      current_sqrt_price,
                      target_sqrt_price_of(tick_index_to_sqrt_price(next.index),
                                           sqrt_price_limit, A_to_b),
                      A_to_b, Specified_input, overflow_checks)

\* swap.rs 232-240: the fill that follows a step that reached the next tick
fill_of_loop(next, step_quote, overflow_checks) ==
    fill_limit_orders(next.tick, tick_index_to_sqrt_price(next.index), A_to_b,
                      Specified_input,
                      amount_remaining - consumed_by(step_quote, Specified_input),
                      call.fusion_pool.fee_rate, overflow_checks)

\* The input of the limit orders of a tick, and what filling all of it takes
orders_input_of(tick) ==
    IF tick = <<>> THEN 0
    ELSE tick[1].open_orders_input + tick[1].part_filled_orders_remaining_input

\* swap.rs 337-349: the fill is partial, and divides by a total that is zero
PartialFillDividesByZero(next, left, overflow_checks) ==
    /\ next.tick # <<>>
    /\ Specified_input
    /\ LET input == UncheckedU64(orders_input_of(next.tick), overflow_checks)
           total_amount_in ==
               get_limit_order_output_amount(input.v, ~A_to_b,
                                             tick_index_to_sqrt_price(next.index), TRUE)
           total_fee == try_mul_div(total_amount_in.v, call.fusion_pool.fee_rate,
                                    FEE_RATE_MUL_VALUE - call.fusion_pool.fee_rate, TRUE)
           needed == UncheckedU64(total_amount_in.v + total_fee.v, overflow_checks)
       IN  /\ input.ok /\ total_amount_in.ok /\ total_fee.ok /\ needed.ok
           /\ left < needed.v
           /\ total_amount_in.v = 0

\* What the fill that follows a step may consume and pay out
FillWithinRemaining(next, step_quote, overflow_checks) ==
    LET left == amount_remaining - consumed_by(step_quote, Specified_input)
        fill == fill_of_loop(next, step_quote, overflow_checks)
    IN  /\ ~PartialFillDividesByZero(next, left, overflow_checks)
        /\ fill.ok =>
               /\ consumed_by(fill.v, Specified_input) <= left
               /\ fill.v.amount_out <= orders_input_of(next.tick)

\* C28: at the head of every iteration, in either build, the concentrated
\* step that is computed consumes no more than amount_remaining (amount_in +
\* fee_amount in exact-input mode, amount_out in exact-output mode); the fill
\* that follows a step that reached the tick consumes no more than what the
\* step left and pays out no more than open_orders_input +
\* part_filled_orders_remaining_input; and the partial fill never divides by
\* zero.
C28_NeverOverConsumes ==
    (pc = "loop" /\ LoopCondition /\ next_tick_of_loop.ok) =>
        \A overflow_checks \in BOOLEAN :
            LET next == next_tick_of_loop.v
                step_quote == step_of_loop(next, overflow_checks)
            IN  step_quote.ok =>
                    /\ consumed_by(step_quote.v, Specified_input) <= amount_remaining
                    /\ step_quote.v.next_sqrt_price = tick_index_to_sqrt_price(next.index)
                           => FillWithinRemaining(next, step_quote.v, overflow_checks)

\* ------------------------------------------------------------------------
\* Properties of reset_configuration and poll_transaction_confirmation
\* ------------------------------------------------------------------------

\* The statics reset_configuration assigns
ResetStatics == { reset_configuration[i].mutex : i \in 1..Len(reset_configuration) }

\* C29: a call of reset_configuration that has returned Ok has stored the
\* default in all three statics, and one that has returned Err has stored
\* nothing, whatever the other threads did meanwhile.
C29_ResetAllOrNothing ==
    \A t \in DOMAIN threads :
        (threads[t].fn = "reset_configuration" /\ ~Running(t)) =>
            IF threads[t].returned.ok THEN threads[t].stored = ResetStatics
            ELSE threads[t].stored = {}

\* C30: any two consecutive requests of the signature statuses are at least
\* the retry interval apart.
C30_IntervalBetweenRequests ==
    \A i \in 2..Len(requested_at) : requested_at[i] - requested_at[i - 1] >= interval

\* ------------------------------------------------------------------------
\* Properties of compute_swap and of the swap quotes
\* ------------------------------------------------------------------------

\* The side of a SwapResult that holds the specified token (swap.rs 275-276)
specified_side(swap_result) ==
    IF A_to_b = Specified_input THEN swap_result.token_a ELSE swap_result.token_b

\* C1: conservation.  At the head of every loop iteration and in every Ok
\* result of compute_swap, token_amount is amount_remaining plus the sum of
\* what the concentrated steps and the limit-order fills consumed (amount_in
\* and fee of each for an exact-input swap, amount_out of each for an
\* exact-output swap), and the specified side of the result is that sum.
C1_Conservation ==
    /\ (pc = "loop" \/ iterations > 0) => token_amount = amount_remaining + consumed
    /\ (pc = "done" /\ result.ok /\ call.fn = "compute_swap") =>
           specified_side(result.v) = consumed

\* An exact-input swap has ended with Ok after a fill of limit orders that
\* took an amount and a fee, with part of the amount left at the limit.
C1_Witness ==
    /\ pc = "done" /\ result.ok /\ call.fn = "compute_swap" /\ Specified_input
    /\ iterations >= 2 /\ amount_remaining > 0
    /\ step[1].crossed
    /\ step[1].limit_swap_computation.amount_in > 0
    /\ step[1].limit_swap_computation.fee_amount > 0
    /\ step[1].info.step_quote.fee_amount > 0

\* C2: a swap returns Ok only from a terminal state: the requested amount
\* is fully consumed (amount_remaining = 0) or the returned next_sqrt_price
\* is the effective sqrt_price_limit.
C2_OkOnlyWhenTerminal ==
    (pc = "done" /\ result.ok) =>
        \/ amount_remaining = 0 /\ consumed = token_amount
        \/ result.v.next_sqrt_price = sqrt_price_limit

\* A swap has returned Ok at its limit, several ticks away, with part of the
\* amount unswapped.
C2_Witness ==
    /\ pc = "done" /\ result.ok /\ iterations >= 2
    /\ amount_remaining > 0 /\ consumed > 0
    /\ result.v.next_sqrt_price = sqrt_price_limit

\* C3: exhaustion of the tick arrays.  When the traversal has run off the
\* end of the supplied arrays with amount left to swap and the limit not
\* reached, the call does not return Ok: it fails, and the failure is
\* INVALID_TICK_ARRAY_SEQUENCE.
C3_ExhaustionFails ==
    (/\ pc = "done" /\ sqrt_price_limit # 0 /\ RanOffTheEnd
     /\ amount_remaining > 0 /\ current_sqrt_price # sqrt_price_limit) =>
        result = Err("INVALID_TICK_ARRAY_SEQUENCE")

\* A swap has crossed the last tick of its arrays with amount left and has
\* failed with INVALID_TICK_ARRAY_SEQUENCE.
C3_Witness ==
    /\ pc = "done" /\ iterations >= 2 /\ RanOffTheEnd
    /\ amount_remaining > 0 /\ current_sqrt_price # sqrt_price_limit
    /\ consumed > 0
    /\ result = Err("INVALID_TICK_ARRAY_SEQUENCE")

\* C4: the running amounts are kept with checked arithmetic.  After every
\* iteration amount_remaining is exactly what it was minus what the step and
\* the fill consumed, amount_calculated exactly what it was plus what they
\* produced, both inside u64: a subtraction below 0 or an addition past
\* u64::MAX ends the call instead (with ARITHMETIC_OVERFLOW) and never
\* leaves a wrapped value.
C4_CheckedRunningAmounts ==
    /\ amount_remaining \in 0..U64_MAX
    /\ amount_calculated \in 0..U64_MAX
    /\ step # <<>> =>
         LET s == step[1]
             before == s.info.before
         IN  /\ s.after_step.amount_remaining =
                   before.amount_remaining - consumed_by(s.info.step_quote, Specified_input)
             /\ s.after_step.amount_calculated =
                   before.amount_calculated + produced_by(s.info.step_quote, Specified_input)
             /\ amount_remaining =
                   s.after_step.amount_remaining
                     - consumed_by(s.limit_swap_computation, Specified_input)
             /\ amount_calculated =
                   s.after_step.amount_calculated
                     + produced_by(s.limit_swap_computation, Specified_input)
             /\ s.after_step.amount_remaining \in 0..U64_MAX
             /\ s.after_step.amount_calculated \in 0..U64_MAX

\* An exact-output swap whose amount_calculated would pass u64::MAX has
\* ended with ARITHMETIC_OVERFLOW.
C4_Witness ==
    /\ pc = "done" /\ result = Err("ARITHMETIC_OVERFLOW")
    /\ iterations > 0 /\ ~Specified_input
    /\ amount_calculated > U64_MAX \div 2

\* C5: every arithmetic failure inside compute_swap comes back as a
\* CoreError, and nothing is kept wrapped: a failed call fails with one of
\* the CoreError values (never a panic), and after every iteration
\* fee_amount is the exact sum of the fees of the step and of the fill and
\* current_liquidity is the exact result of applying the crossed tick's
\* liquidity_net.
C5_ArithmeticFailuresAreErrors ==
    /\ (pc = "done" /\ ~result.ok) => result.err \in CoreErrors
    /\ step # <<>> =>
         LET s == step[1]
             before == s.info.before
         IN  /\ fee_amount = before.fee_amount + s.info.step_quote.fee_amount
                                + s.limit_swap_computation.fee_amount
             /\ current_liquidity =
                   IF s.crossed
                   THEN before.current_liquidity + liquidity_delta(s.info.next_tick, A_to_b)
                   ELSE before.current_liquidity

\* compute_swap has been called: the transfer fee of the quote and
\* TickArraySequence::new have succeeded.
ComputeSwapCalled == pc # "call" /\ tick_sequence # NoSequence

\* The limit compute_swap works with, as its contract states it.
RequestedLimit ==
    IF call.sqrt_price_limit # 0 THEN call.sqrt_price_limit
    ELSE IF A_to_b THEN MIN_SQRT_PRICE ELSE MAX_SQRT_PRICE

RequestedLimitInBounds ==
    MIN_SQRT_PRICE <= RequestedLimit /\ RequestedLimit <= MAX_SQRT_PRICE

RequestedLimitOnWrongSide ==
    IF A_to_b THEN RequestedLimit >= call.fusion_pool.sqrt_price
    ELSE RequestedLimit <= call.fusion_pool.sqrt_price

\* C6: compute_swap never returns Ok for a token_amount of 0, and it fails
\* with ZERO_TRADABLE_AMOUNT whenever the limit passes the bounds check and
\* the direction check.
C6_ZeroAmountRejected ==
    (pc = "done" /\ ComputeSwapCalled /\ token_amount = 0) =>
        /\ ~result.ok
        /\ (RequestedLimitInBounds /\ ~RequestedLimitOnWrongSide) =>
               result = Err("ZERO_TRADABLE_AMOUNT")

\* A call with amount 0 and a valid limit has failed with
\* ZERO_TRADABLE_AMOUNT.
C6_Witness ==
    /\ pc = "done" /\ ComputeSwapCalled /\ token_amount = 0
    /\ call.sqrt_price_limit # 0
    /\ RequestedLimitInBounds /\ ~RequestedLimitOnWrongSide
    /\ result = Err("ZERO_TRADABLE_AMOUNT")

\* C7: a sqrt_price_limit of 0 stands for MIN_SQRT_PRICE when a_to_b and
\* for MAX_SQRT_PRICE otherwise: it is never rejected as out of bounds, the
\* loop runs against that bound, and an Ok result with amount left has
\* stopped on it.  Any other limit outside [MIN_SQRT_PRICE, MAX_SQRT_PRICE]
\* fails with SQRT_PRICE_LIMIT_OUT_OF_BOUNDS before any step is taken.
C7_LimitDefaultAndBounds ==
    /\ sqrt_price_limit # 0 => sqrt_price_limit = RequestedLimit
    /\ (pc = "done" /\ ComputeSwapCalled /\ call.sqrt_price_limit = 0) =>
          /\ result # Err("SQRT_PRICE_LIMIT_OUT_OF_BOUNDS")
          /\ (/\ MIN_SQRT_PRICE < call.fusion_pool.sqrt_price
              /\ call.fusion_pool.sqrt_price < MAX_SQRT_PRICE) =>
                 result # Err("INVALID_SQRT_PRICE_LIMIT_DIRECTION")
          /\ (result.ok /\ amount_remaining > 0) =>
                 result.v.next_sqrt_price =
                     IF A_to_b THEN MIN_SQRT_PRICE ELSE MAX_SQRT_PRICE
    /\ (pc = "done" /\ ComputeSwapCalled /\ ~RequestedLimitInBounds) =>
          /\ result = Err("SQRT_PRICE_LIMIT_OUT_OF_BOUNDS")
          /\ iterations = 0 /\ sqrt_price_limit = 0

\* A swap called with limit 0 has run down to MIN_SQRT_PRICE and returned
\* Ok there with amount left.
C7_Witness ==
    /\ pc = "done" /\ call.sqrt_price_limit = 0 /\ A_to_b
    /\ result.ok /\ amount_remaining > 0 /\ iterations >= 2
    /\ result.v.next_sqrt_price = MIN_SQRT_PRICE

\* C8: compute_swap fails with INVALID_SQRT_PRICE_LIMIT_DIRECTION exactly
\* when the effective limit is in bounds and not strictly on the side the
\* price moves to: at or above the current price when a_to_b, at or below it
\* otherwise.  No step is taken.
C8_LimitDirection ==
    (pc = "done" /\ ComputeSwapCalled) =>
        /\ (RequestedLimitInBounds /\ RequestedLimitOnWrongSide) =>
              result = Err("INVALID_SQRT_PRICE_LIMIT_DIRECTION") /\ iterations = 0
        /\ result = Err("INVALID_SQRT_PRICE_LIMIT_DIRECTION") =>
              RequestedLimitInBounds /\ RequestedLimitOnWrongSide

\* A call whose limit is the current price has failed with
\* INVALID_SQRT_PRICE_LIMIT_DIRECTION.
C8_Witness ==
    /\ pc = "done" /\ ComputeSwapCalled /\ token_amount > 0
    /\ call.sqrt_price_limit = call.fusion_pool.sqrt_price
    /\ result = Err("INVALID_SQRT_PRICE_LIMIT_DIRECTION")

\* C9: the slippage bound of a quote.  An exact-input quote has
\* token_min_out = floor(token_est_out * (10000 - bps) / 10000), an
\* exact-output quote has token_max_in = ceil(token_est_in * (10000 + bps)
\* / 10000); hence token_min_out <= token_est_out and token_max_in >=
\* token_est_in.
C9_SlippageBounds ==
    (pc = "done" /\ result.ok) =>
        /\ call.fn = "swap_quote_by_input_token" =>
              /\ result.v.token_min_out =
                    (result.v.token_est_out * (10000 - call.slippage_tolerance_bps))
                        \div 10000
              /\ result.v.token_min_out <= result.v.token_est_out
        /\ call.fn = "swap_quote_by_output_token" =>
              /\ result.v.token_max_in * 10000 >=
                    result.v.token_est_in * (10000 + call.slippage_tolerance_bps)
              /\ (result.v.token_max_in - 1) * 10000 <
                    result.v.token_est_in * (10000 + call.slippage_tolerance_bps)
              /\ result.v.token_max_in >= result.v.token_est_in

\* An exact-input quote with a tolerance of 10 % and transfer fees has
\* returned a token_min_out below its token_est_out.
C9_Witness ==
    /\ pc = "done" /\ result.ok /\ call.fn = "swap_quote_by_input_token"
    /\ call.slippage_tolerance_bps = 1000
    /\ call.transfer_fee_a # NoTransferFee
    /\ result.v.token_min_out > 0
    /\ result.v.token_min_out < result.v.token_est_out

=============================================================================
